---- MODULE Spec2Model ----
(***************************************************************************)
(* Caption-Cleanup-Studio: the caption editing engine.                     *)
(*                                                                         *)
(*   Spec       the useHistory hook (hooks/useHistory.ts): past, present,  *)
(*              future and the isUndoRedoRef suppression flag, one handler *)
(*              call per render.                                           *)
(*   SpecCodec  serializeCaptions followed by parseCaptions on a           *)
(*              collection drawn from samples.                             *)
(*   SpecStore  an editing session: parseCaptions, addCaption,             *)
(*              updateCaption, deleteCaption, reorderCaptions.             *)
(*   SpecPage   the page component: the text, the visual collection, the   *)
(*              parse effect and handleCaptionObjectsChange.               *)
(*   SpecOps    one call of addCaption, updateCaption, deleteCaption or    *)
(*              reorderCaptions on a drawn collection, with the arrays the *)
(*              call reads and writes.                                     *)
(*   SpecValidate  one call of validateCaption or validateAllCaptions on a *)
(*              drawn collection.                                          *)
(*   SpecStats  one call of calculateStats.                                *)
(*   SpecLocator  one call of findActiveCaptionIndex, and the editor's     *)
(*              highlighted id for the same time.                          *)
(*   SpecDetect one call of detectFormat on a drawn text.                  *)
(*   SpecTime   msToSrtTime, srtTimeToMs and the time editor of            *)
(*              CaptionCard on drawn inputs.                               *)
(*   SpecTranscribe  one request to the transcription route.               *)
(*   SpecBatch  useHistory with several undo()/redo() calls per render.    *)
(*   SpecChain  validateAllCaptions and the locator on collections of up   *)
(*              to three segments.                                         *)
(*   SpecPlayer the VideoPlayer component while the collection is edited.  *)
(***************************************************************************)
EXTENDS Integers, Sequences, FiniteSets, TLC

VARIABLES
    \* ---- useHistory<T> (hooks/useHistory.ts)
    past,            \* useState<T[]>([])
    present,         \* useState<T>(initialState)
    future,          \* useState<T[]>([])
    isUndoRedoRef,   \* useRef(false).current
    \* observation of the calls made on the hook (not program state)
    log,             \* the calls made so far, oldest first
    pre,             \* past/present/future/flag as they were before the last call
    born,            \* "fresh": constructed by useHistory(initialState);
                     \* "full": after MAX_HISTORY_SIZE recorded commits
    \* ---- the environment of the id generators
    dateNow,         \* the last value Date.now() returned
    randomDraws,     \* how many times Math.random() was called
    \* ---- a codec round trip: serializeCaptions, then parseCaptions
    codecInput,      \* the collection handed to serializeCaptions
    codecFormat,     \* 'SRT' | 'VTT'
    codecText,       \* the text serializeCaptions returned
    codecParsed,     \* what parseCaptions made of it
    codecPc,         \* "input", "serialized", "parsed"
    \* ---- an editing session on the Segment Store (caption-utils)
    session,         \* the session's collection
    removedIds,      \* ids of the segments deleteCaption dropped (observation)
    \* ---- the page component Home (app/page.tsx)
    originalCaptions,       \* useState('')
    captionObjects,         \* useState<Caption[]>([])
    captionFormat,          \* useState<'SRT' | 'VTT'>('SRT')
    isUpdatingFromVisual,   \* useState(false)
    lastDeps,               \* the effect's dependencies at the last render it saw
    pageLast,               \* the last handler that ran and its collections (observation)
    pageEvents,             \* handlers run so far (observation)
    \* ---- one call of a Segment Store function (caption-utils)
    opInput,         \* the collection handed to the function
    opCall,          \* the call made and its arguments; op "none" before it
    memory,          \* the arrays `captions` and `updated` as the call left them
    \* ---- one call of a validation function (caption-utils)
    valInput,        \* the collection handed to the function
    valCall,         \* the call made and its arguments; fn "none" before it
    valResult,       \* the CaptionValidation it returned
    \* ---- one call of another pure function (caption-utils, video-player)
    fnInput,         \* the arguments drawn for the call
    fnCall,          \* the function called; "none" before the call
    fnResult,        \* what it returned or threw
    \* ---- useHistory handlers called more than once in one render
    pending,         \* the state updates queued since the last render
    \* ---- the VideoPlayer component (components/video-player.tsx)
    playerCaptions,      \* the captions prop
    videoCurrentTime,    \* video.currentTime * 1000
    currentTime,         \* useState(0)
    activeCaptionIndex,  \* useState<number | null>(null)
    playerLast,          \* the last event: "mount", "timeupdate", "edit" (observation)
    playerEvents,        \* events so far (observation)
    \* ---- POST /api/transcribe
    apiRequest,      \* what the request carries
    apiServices,     \* how OpenAI and AssemblyAI will answer
    apiPc,           \* the statement POST has reached
    apiTranscription,\* let transcription
    apiAttempts,     \* the services that were attempted, in order (observation)
    apiResponse      \* the Response returned

historyVars == <<past, present, future, isUndoRedoRef, log, pre, born>>
envVars == <<dateNow, randomDraws>>
codecVars == <<codecInput, codecFormat, codecText, codecParsed, codecPc>>
storeVars == <<session, removedIds>>
pageVars == <<originalCaptions, captionObjects, captionFormat, isUpdatingFromVisual,
              lastDeps, pageLast, pageEvents>>

opsVars == <<opInput, opCall, memory>>
valVars == <<valInput, valCall, valResult>>
fnVars == <<fnInput, fnCall, fnResult>>
playerVars == <<playerCaptions, videoCurrentTime, currentTime, activeCaptionIndex,
                playerLast, playerEvents>>
apiVars == <<apiRequest, apiServices, apiPc, apiTranscription, apiAttempts, apiResponse>>
moreVars == <<fnVars, pending, playerVars, apiVars>>
callVars == <<opsVars, valVars, moreVars>>

vars == <<historyVars, envVars, codecVars, storeVars, pageVars, callVars>>

-----------------------------------------------------------------------------
(* Bounds of the model *)

\* values of T carry a number 0..MaxValue
MaxValue == 2
\* calls made on the hook in one run
MaxSteps == 5
\* segments in a collection
MaxCaptions == 2
\* Date.now() ranges over 0..MaxClock
MaxClock == 1
\* calls of Math.random() in one run
MaxRandom == 2
\* handlers run on the page in one run
MaxPageEvents == 3

-----------------------------------------------------------------------------
(* useHistory: values of the generic type T                                *)
(*                                                                         *)
(* T is instantiated with plain objects { n: <number>, tag: 0 }.  An       *)
(* object literal can list its two keys in either order; JSON.stringify    *)
(* writes the keys in the object's own order, deep equality does not look  *)
(* at the order.                                                           *)

MAX_HISTORY_SIZE == 50

KeyOrders == {"n,tag", "tag,n"}

TValues == [n : 0..MaxValue, keys : KeyOrders]

\* what T[].pop() / T[].shift() return on an empty array
Undefined == [n |-> -1, keys |-> "undefined"]

initialState == [n |-> 0, keys |-> "n,tag"]

\* JSON.stringify(v): the members in the object's key order
JSONstringify(v) ==
    CASE v.keys = "n,tag" -> << <<"n", v.n>>, <<"tag", 0>> >>
      [] v.keys = "tag,n" -> << <<"tag", 0>>, <<"n", v.n>> >>
      [] OTHER            -> << <<"undefined", 0>> >>

\* structural (deep) equality of two values of T: same keys, same values
DeepEqual(a, b) == a.n = b.n /\ (a.keys = "undefined") = (b.keys = "undefined")

\* the argument of setState: a value, or an updater (prevState) => T
Updaters == {"identity", "increment"}

SetStateInputs ==
    [isFunction : {FALSE}, value : TValues, fn : {"none"}]
        \cup [isFunction : {TRUE}, value : {initialState}, fn : Updaters]

ApplyUpdater(fn, prevState) ==
    CASE fn = "identity"  -> prevState
      [] fn = "increment" -> [prevState EXCEPT !.n = (prevState.n + 1) % (MaxValue + 1)]

\* typeof newState === 'function' ? newState(currentPresent) : newState
Resolve(newState, currentPresent) ==
    IF newState.isFunction THEN ApplyUpdater(newState.fn, currentPresent)
    ELSE newState.value

-----------------------------------------------------------------------------
(* useHistory: the handlers *)

\* setPast((currentPast) => { newPast = [...currentPast, currentPresent]; ... })
PushPast(currentPast, currentPresent) ==
    LET newPast == Append(currentPast, currentPresent) IN
    IF Len(newPast) > MAX_HISTORY_SIZE
        THEN Tail(newPast)             \* newPast.slice(1)
        ELSE newPast

Snapshot == [past |-> past, present |-> present, future |-> future,
             flag |-> isUndoRedoRef]

Record(op, arg) ==
    /\ log' = Append(log, [op |-> op, arg |-> arg, p |-> present])
    /\ pre' = Snapshot
    /\ UNCHANGED born

\* setState with the undo/redo flag ignored and a reference comparison
setState_AlwaysRecords(newState) ==
    LET resolvedState == Resolve(newState, present) IN
    /\ past' = PushPast(past, present)
    /\ future' = <<>>
    /\ present' = resolvedState
    /\ isUndoRedoRef' = FALSE
    /\ Record("setState", resolvedState)

setState(newState) ==
    LET resolvedState == Resolve(newState, present) IN
    /\ IF isUndoRedoRef
          THEN \* don't add to history if we're undoing/redoing
               /\ isUndoRedoRef' = FALSE
               /\ UNCHANGED <<past, present, future>>
          ELSE IF JSONstringify(resolvedState) = JSONstringify(present)
          THEN UNCHANGED <<past, present, future, isUndoRedoRef>>
          ELSE /\ past' = PushPast(past, present)
               /\ future' = <<>>
               /\ present' = resolvedState
               /\ UNCHANGED isUndoRedoRef
    /\ Record("setState", resolvedState)

\* newPast.pop()
Pop(s) == IF Len(s) = 0 THEN Undefined ELSE s[Len(s)]
PopRest(s) == IF Len(s) = 0 THEN s ELSE SubSeq(s, 1, Len(s) - 1)
\* newFuture.shift()
Shift(s) == IF Len(s) = 0 THEN Undefined ELSE Head(s)
ShiftRest(s) == IF Len(s) = 0 THEN s ELSE Tail(s)

undo_NoGuard ==
    /\ isUndoRedoRef' = TRUE
    /\ past' = PopRest(past)
    /\ future' = <<present>> \o future
    /\ present' = Pop(past)
    /\ Record("undo", present)

undo ==
    /\ IF Len(past) = 0
          THEN UNCHANGED <<past, present, future, isUndoRedoRef>>
          ELSE /\ isUndoRedoRef' = TRUE
               /\ past' = PopRest(past)
               /\ future' = <<present>> \o future
               /\ present' = Pop(past)
    /\ Record("undo", present)

redo ==
    /\ IF Len(future) = 0
          THEN UNCHANGED <<past, present, future, isUndoRedoRef>>
          ELSE /\ isUndoRedoRef' = TRUE
               /\ future' = ShiftRest(future)
               /\ past' = Append(past, present)
               /\ present' = Shift(future)
    /\ Record("redo", present)

clear ==
    /\ past' = <<>>
    /\ future' = <<>>
    /\ UNCHANGED <<present, isUndoRedoRef>>
    /\ Record("clear", present)

canUndo == Len(past) > 0
canRedo == Len(future) > 0

-----------------------------------------------------------------------------
(* Text: a string is a sequence of one-character strings *)

Digits == <<"0", "1", "2", "3", "4", "5", "6", "7", "8", "9">>
DigitChar(d) == Digits[d + 1]
IsDigit(c) == \E d \in 0..9 : Digits[d + 1] = c
DigitValue(c) == CHOOSE d \in 0..9 : Digits[d + 1] = c
NL == "\n"
IsSpace(c) == c = " " \/ c = NL

\* String(n), n >= 0
RECURSIVE NumToStr(_)
NumToStr(n) ==
    IF n < 10 THEN <<DigitChar(n)>>
    ELSE NumToStr(n \div 10) \o <<DigitChar(n % 10)>>

\* s.padStart(width, '0')
PadStart(s, width) ==
    IF Len(s) >= width THEN s
    ELSE [i \in 1..(width - Len(s)) |-> "0"] \o s

\* parseInt(s, 10) of a string of digits
RECURSIVE ParseInt(_)
ParseInt(s) ==
    IF s = <<>> THEN 0
    ELSE 10 * ParseInt(SubSeq(s, 1, Len(s) - 1)) + DigitValue(s[Len(s)])

AllDigits(s) == \A i \in 1..Len(s) : IsDigit(s[i])

\* s.split('\n')
RECURSIVE SplitLines(_)
SplitLines(s) ==
    IF \A i \in 1..Len(s) : s[i] # NL THEN <<s>>
    ELSE LET i == CHOOSE k \in 1..Len(s) :
                      s[k] = NL /\ \A j \in 1..(k - 1) : s[j] # NL
         IN  <<SubSeq(s, 1, i - 1)>> \o SplitLines(SubSeq(s, i + 1, Len(s)))

\* lines.join('\n')
RECURSIVE JoinLines(_)
JoinLines(lines) ==
    IF lines = <<>> THEN <<>>
    ELSE IF Len(lines) = 1 THEN lines[1]
    ELSE lines[1] \o <<NL>> \o JoinLines(Tail(lines))

\* s.trimStart()
RECURSIVE TrimStart(_)
TrimStart(s) ==
    IF s # <<>> /\ IsSpace(s[1]) THEN TrimStart(Tail(s)) ELSE s

\* s.trimEnd()
RECURSIVE TrimEnd(_)
TrimEnd(s) ==
    IF s # <<>> /\ IsSpace(s[Len(s)]) THEN TrimEnd(SubSeq(s, 1, Len(s) - 1)) ELSE s

\* s.trim()
Trim(s) == TrimEnd(TrimStart(s))

\* s.startsWith(prefix)
StartsWith(s, prefix) ==
    Len(s) >= Len(prefix) /\ SubSeq(s, 1, Len(prefix)) = prefix

Arrow == <<"-", "-", ">">>
WEBVTT == <<"W", "E", "B", "V", "T", "T">>

-----------------------------------------------------------------------------
(* Format codec: the subtitle package's stringifySync / parseSync, from the *)
(* cue grammar: optional index line, "start --> end" line of fixed-width   *)
(* HH:MM:SS<sep>mmm timecodes, text lines, blank line between cues.        *)

\* HH:MM:SS<sep>mmm
FormatTimestamp(ms, sep) ==
    PadStart(NumToStr(ms \div 3600000), 2) \o <<":">>
        \o PadStart(NumToStr((ms % 3600000) \div 60000), 2) \o <<":">>
        \o PadStart(NumToStr((ms % 60000) \div 1000), 2) \o <<sep>>
        \o PadStart(NumToStr(ms % 1000), 3)

\* the fixed-width pattern \d{2}:\d{2}:\d{2}[,.]\d{3}
IsTimecode(s) ==
    /\ Len(s) = 12
    /\ AllDigits(SubSeq(s, 1, 2)) /\ s[3] = ":"
    /\ AllDigits(SubSeq(s, 4, 5)) /\ s[6] = ":"
    /\ AllDigits(SubSeq(s, 7, 8)) /\ s[9] \in {",", "."}
    /\ AllDigits(SubSeq(s, 10, 12))

TimecodeToMs(s) ==
    ParseInt(SubSeq(s, 1, 2)) * 3600000 + ParseInt(SubSeq(s, 4, 5)) * 60000
        + ParseInt(SubSeq(s, 7, 8)) * 1000 + ParseInt(SubSeq(s, 10, 12))

\* one cue: index line, timestamp line, text
FormatCue(cue, index, sep) ==
    NumToStr(index) \o <<NL>>
        \o FormatTimestamp(cue.start, sep) \o <<" ">> \o Arrow \o <<" ">>
        \o FormatTimestamp(cue.end, sep) \o <<NL>>
        \o cue.text \o <<NL>>

RECURSIVE FormatCues(_, _, _)
FormatCues(cues, index, sep) ==
    IF cues = <<>> THEN <<>>
    ELSE FormatCue(cues[1], index, sep)
            \o (IF Len(cues) > 1 THEN <<NL>> ELSE <<>>)
            \o FormatCues(Tail(cues), index + 1, sep)

\* stringifySync(nodes, { format })
stringifySync(cues, format) ==
    IF format = "VTT"
        THEN WEBVTT \o <<NL, NL>> \o FormatCues(cues, 1, ".")
        ELSE FormatCues(cues, 1, ",")

IsBlankLine(line) == \A i \in 1..Len(line) : IsSpace(line[i])

\* the blocks of non-blank lines, in order
RECURSIVE SplitBlocks(_, _)
SplitBlocks(lines, current) ==
    LET done == IF current = <<>> THEN <<>> ELSE <<current>> IN
    IF lines = <<>> THEN done
    ELSE IF IsBlankLine(lines[1]) THEN done \o SplitBlocks(Tail(lines), <<>>)
    ELSE SplitBlocks(Tail(lines), Append(current, lines[1]))

HasArrow(line) ==
    \E i \in 1..(Len(line) - 2) : SubSeq(line, i, i + 2) = Arrow

\* the line of the block that holds the timestamps: the first, or the second
\* after an index line; 0 for a header or metadata block
TimestampLine(block) ==
    IF HasArrow(block[1]) THEN 1
    ELSE IF Len(block) >= 2 /\ HasArrow(block[2]) THEN 2
    ELSE 0

IsTimestampLine(line) ==
    /\ Len(line) = 29
    /\ IsTimecode(SubSeq(line, 1, 12))
    /\ SubSeq(line, 13, 17) = <<" ">> \o Arrow \o <<" ">>
    /\ IsTimecode(SubSeq(line, 18, 29))

CueBlocks(blocks) == SelectSeq(blocks, LAMBDA b : TimestampLine(b) # 0)

ParseCue(block) ==
    LET k == TimestampLine(block) IN
    [start |-> TimecodeToMs(SubSeq(block[k], 1, 12)),
     end   |-> TimecodeToMs(SubSeq(block[k], 18, 29)),
     text  |-> JoinLines(SubSeq(block, k + 1, Len(block)))]

\* parseSync(text): the cue nodes, or the error it throws
parseSync(text) ==
    LET cueBlocks == CueBlocks(SplitBlocks(SplitLines(text), <<>>)) IN
    IF cueBlocks = <<>>
           \/ \E i \in 1..Len(cueBlocks) :
                  ~IsTimestampLine(cueBlocks[i][TimestampLine(cueBlocks[i])])
        THEN [error |-> TRUE, cues |-> <<>>]
        ELSE [error |-> FALSE,
              cues  |-> [i \in 1..Len(cueBlocks) |-> ParseCue(cueBlocks[i])]]

-----------------------------------------------------------------------------
(* caption-utils: parseCaptions / serializeCaptions *)

\* `caption-${Date.now()}-${index}`: the clock value and the decimal text of
\* the suffix, as <<integer part, digits after the point>>
IndexId(now, index) == <<now, index, 0>>
\* `caption-${Date.now()}-${Math.random()}`: Math.random() is in [0, 1)
RandomId(now, random) == <<now, 0, random>>

parseCaptions_EndFromStart(captionText, now) ==
    LET lines   == SplitLines(captionText)
        cleaned == Trim(JoinLines([i \in 1..Len(lines) |-> TrimStart(lines[i])]))
        parsed  == parseSync(cleaned)
    IN  IF parsed.error THEN [error |-> TRUE, captions |-> <<>>]
        ELSE [error |-> FALSE,
              captions |-> [i \in 1..Len(parsed.cues) |->
                               [id    |-> IndexId(now, i - 1),
                                start |-> parsed.cues[i].start,
                                end   |-> parsed.cues[i].start,
                                text  |-> parsed.cues[i].text]]]

parseCaptions(captionText, now) ==
    LET lines   == SplitLines(captionText)
        cleaned == Trim(JoinLines([i \in 1..Len(lines) |-> TrimStart(lines[i])]))
        parsed  == parseSync(cleaned)
    IN  IF parsed.error THEN [error |-> TRUE, captions |-> <<>>]
        ELSE [error |-> FALSE,
              captions |-> [i \in 1..Len(parsed.cues) |->
                               [id    |-> IndexId(now, i - 1),
                                start |-> parsed.cues[i].start,
                                end   |-> parsed.cues[i].end,
                                text  |-> parsed.cues[i].text]]]

serializeCaptions(captions, format) ==
    stringifySync([i \in 1..Len(captions) |->
                      [start |-> captions[i].start,
                       end   |-> captions[i].end,
                       text  |-> captions[i].text]],
                  format)

\* the first position at or after i that holds no white space
RECURSIVE SkipSpaces(_, _)
SkipSpaces(s, i) ==
    IF i <= Len(s) /\ IsSpace(s[i]) THEN SkipSpaces(s, i + 1) ELSE i

\* \d{2}:\d{2}:\d{2}[,\.]\d{3}\s*-->\s*\d{2}:\d{2}:\d{2}[,\.]\d{3} matched at i
TimestampPairAt(s, i) ==
    /\ i + 11 <= Len(s)
    /\ IsTimecode(SubSeq(s, i, i + 11))
    /\ LET j == SkipSpaces(s, i + 12) IN
       /\ j + 2 <= Len(s)
       /\ SubSeq(s, j, j + 2) = Arrow
       /\ LET k == SkipSpaces(s, j + 3) IN
          /\ k + 11 <= Len(s)
          /\ IsTimecode(SubSeq(s, k, k + 11))

\* /^\s*1\s*[\r\n]+<timestamp pair>/
StartsWithCueOne(s) ==
    LET a == SkipSpaces(s, 1) IN
    /\ a <= Len(s) /\ s[a] = "1"
    /\ LET b == SkipSpaces(s, a + 1) IN
       /\ b > a + 1
       /\ s[b - 1] = NL
       /\ TimestampPairAt(s, b)

\* /<timestamp pair>/ anywhere
HasTimestampPair(s) == \E i \in 1..Len(s) : TimestampPairAt(s, i)

detectFormat(captionText) ==
    IF StartsWith(Trim(captionText), WEBVTT) THEN "VTT"
    ELSE IF StartsWithCueOne(captionText) THEN "SRT"
    ELSE IF HasTimestampPair(captionText) THEN "SRT"
    ELSE "UNKNOWN"

-----------------------------------------------------------------------------
(* caption-utils: the Segment Store *)

Ids(captions) == {captions[i].id : i \in 1..Len(captions)}

\* what Array.prototype.splice makes of its start argument
SpliceStart(len, start) ==
    IF start < 0 THEN (IF len + start < 0 THEN 0 ELSE len + start)
    ELSE IF start > len THEN len ELSE start

\* array.splice(start, 0, item)
SpliceInsert(array, start, item) ==
    LET k == SpliceStart(Len(array), start) IN
    SubSeq(array, 1, k) \o <<item>> \o SubSeq(array, k + 1, Len(array))

\* array.splice(start, 1): the array that is left
SpliceRemove(array, start) ==
    LET k == SpliceStart(Len(array), start) IN
    SubSeq(array, 1, k) \o SubSeq(array, k + 2, Len(array))

\* array.splice(start, 1): the elements it returns
SpliceRemoved(array, start) ==
    LET k == SpliceStart(Len(array), start) IN
    IF k < Len(array) THEN <<array[k + 1]>> ELSE <<>>

\* the value of removed[0] when splice removed nothing
UndefinedCaption == [undefined |-> TRUE]

IsCaption(element) == element # UndefinedCaption

\* The arrays a call works on.  `captions` and `updated` are references into
\* arrays; the caller keeps the reference `captions`.
Memory(captions) ==
    [captions |-> 1, updated |-> 2, arrays |-> <<captions, <<>>>>]

Spread_Alias(m) == [m EXCEPT !.updated = m.captions]

\* const updated = [...captions]: a new array with the same elements
Spread(m) == [m EXCEPT !.arrays[m.updated] = m.arrays[m.captions]]

\* captions.map(...) / captions.filter(...): the result is a new array
Returned(m, array) == [m EXCEPT !.arrays[m.updated] = array]

\* what the caller holds after the call
ArgumentOf(m) == m.arrays[m.captions]
ResultOf(m) == m.arrays[m.updated]

addCaptionCall(m, index, newCaption, now, random) ==
    LET caption == [id    |-> RandomId(now, random),
                    start |-> newCaption.start,
                    end   |-> newCaption.end,
                    text  |-> newCaption.text]
        copied == Spread(m)
    IN  [copied EXCEPT !.arrays[copied.updated] = SpliceInsert(@, index, caption)]

addCaption(captions, index, newCaption, now, random) ==
    ResultOf(addCaptionCall(Memory(captions), index, newCaption, now, random))

Merge_KeepsOld(cap, updates) == cap

\* { ...cap, ...updates }: updates names the fields it carries
Merge(cap, updates) ==
    [id    |-> cap.id,
     start |-> IF "start" \in updates.fields THEN updates.start ELSE cap.start,
     end   |-> IF "end" \in updates.fields THEN updates.end ELSE cap.end,
     text  |-> IF "text" \in updates.fields THEN updates.text ELSE cap.text]

updateCaption_Rejecting(captions, id, updates) ==
    [i \in 1..Len(captions) |->
        IF captions[i].id = id /\ Merge(captions[i], updates).start < Merge(captions[i], updates).end
        THEN Merge(captions[i], updates) ELSE captions[i]]

updateCaption(captions, id, updates) ==
    [i \in 1..Len(captions) |->
        IF captions[i].id = id THEN Merge(captions[i], updates) ELSE captions[i]]

updateCaptionCall(m, id, updates) ==
    Returned(m, updateCaption(ArgumentOf(m), id, updates))

deleteCaption_DropsFirst(captions, id) ==
    IF Len(captions) = 0 THEN captions ELSE Tail(captions)

deleteCaption(captions, id) ==
    SelectSeq(captions, LAMBDA cap : cap.id # id)

deleteCaptionCall(m, id) ==
    Returned(m, deleteCaption(ArgumentOf(m), id))

\* const [moved] = updated.splice(fromIndex, 1); updated.splice(toIndex, 0, moved)
reorderCaptionsCall(m, fromIndex, toIndex) ==
    LET copied == Spread(m)
        before == copied.arrays[copied.updated]
        removed == SpliceRemoved(before, fromIndex)
        moved == IF Len(removed) = 0 THEN UndefinedCaption ELSE removed[1]
    IN  [copied EXCEPT !.arrays[copied.updated] =
            SpliceInsert(SpliceRemove(before, fromIndex), toIndex, moved)]

reorderCaptions(captions, fromIndex, toIndex) ==
    ResultOf(reorderCaptionsCall(Memory(captions), fromIndex, toIndex))

-----------------------------------------------------------------------------
(* caption-utils: validation.  A message is kept as its kind, the caption   *)
(* number it names (index + 1), the line number for a line message and the *)
(* number it quotes.  Times are whole milliseconds, so                     *)
(* duration = ms / 1000 and cps = chars / duration are compared with their *)
(* thresholds exactly: cps > k is chars * 1000 > k * ms.                   *)

Msg(kind, at, line, value) == [kind |-> kind, at |-> at, line |-> line, value |-> value]

\* if (cond) { list.push(msg) }
When(cond, msg) == IF cond THEN <<msg>> ELSE <<>>

RECURSIVE Flatten(_)
Flatten(lists) ==
    IF Len(lists) = 0 THEN <<>> ELSE Head(lists) \o Flatten(Tail(lists))

\* const cps = duration > 0 ? chars / duration : Infinity;  cps > k
CpsAbove(chars, ms, k) == IF ms > 0 THEN chars * 1000 > k * ms ELSE TRUE

\* cps < k
CpsBelow(chars, ms, k) == IF ms > 0 THEN chars * 1000 < k * ms ELSE FALSE

\* lines.forEach((line, lineIdx) => { if (line.length > 42) ... })
LineWarnings(lines, index) ==
    Flatten([i \in 1..Len(lines) |->
                When(Len(lines[i]) > 42, Msg("lineLength", index + 1, i, Len(lines[i])))])

validateCaption_StrictOrder(caption, index) ==
    LET ms == caption.end - caption.start
        lines == SplitLines(caption.text)
        chars == Len(caption.text)
        errors ==
            When(caption.start > caption.end, Msg("inverted", index + 1, 0, 0))
         \o When(caption.start < 0 \/ caption.end < 0, Msg("negative", index + 1, 0, 0))
         \o When(Len(lines) > 2, Msg("lines", index + 1, 0, Len(lines)))
         \o When(CpsAbove(chars, ms, 21), Msg("cpsError", index + 1, 0, 0))
        warnings ==
            When(Len(Trim(caption.text)) = 0, Msg("empty", index + 1, 0, 0))
         \o When(ms < 1000, Msg("short", index + 1, 0, ms))
         \o When(ms > 6000, Msg("long", index + 1, 0, ms))
         \o LineWarnings(lines, index)
         \o When(~CpsAbove(chars, ms, 21) /\ CpsAbove(chars, ms, 17),
                 Msg("cpsFast", index + 1, 0, 0))
         \o When(~CpsAbove(chars, ms, 17) /\ CpsBelow(chars, ms, 12) /\ ms > 1000,
                 Msg("cpsSlow", index + 1, 0, 0))
    IN  [isValid |-> Len(errors) = 0, warnings |-> warnings, errors |-> errors]

validateCaption(caption, index) ==
    LET ms == caption.end - caption.start
        lines == SplitLines(caption.text)
        chars == Len(caption.text)
        errors ==
            When(caption.start >= caption.end, Msg("inverted", index + 1, 0, 0))
         \o When(caption.start < 0 \/ caption.end < 0, Msg("negative", index + 1, 0, 0))
         \o When(Len(lines) > 2, Msg("lines", index + 1, 0, Len(lines)))
         \o When(CpsAbove(chars, ms, 21), Msg("cpsError", index + 1, 0, 0))
        warnings ==
            When(Len(Trim(caption.text)) = 0, Msg("empty", index + 1, 0, 0))
         \o When(ms < 1000, Msg("short", index + 1, 0, ms))
         \o When(ms > 6000, Msg("long", index + 1, 0, ms))
         \o LineWarnings(lines, index)
         \o When(~CpsAbove(chars, ms, 21) /\ CpsAbove(chars, ms, 17),
                 Msg("cpsFast", index + 1, 0, 0))
         \o When(~CpsAbove(chars, ms, 17) /\ CpsBelow(chars, ms, 12) /\ ms > 1000,
                 Msg("cpsSlow", index + 1, 0, 0))
    IN  [isValid |-> Len(errors) = 0, warnings |-> warnings, errors |-> errors]

MIN_GAP_MS == 100

\* the loop comparing the starts of the two segments
PairErrors_CompareStarts(captions) ==
    Flatten([i \in 1..(Len(captions) - 1) |->
        When(captions[i].start > captions[i + 1].start,
             Msg("overlap", i, 0, captions[i].end - captions[i + 1].start))])

\* the loop over i = 0 .. captions.length - 2: what it pushes on allErrors
PairErrors(captions) ==
    Flatten([i \in 1..(Len(captions) - 1) |->
        When(captions[i].end > captions[i + 1].start,
             Msg("overlap", i, 0, captions[i].end - captions[i + 1].start))])

PairWarnings_GapInclusive(captions) ==
    Flatten([i \in 1..(Len(captions) - 1) |->
        When(~(captions[i].end > captions[i + 1].start)
                /\ captions[i + 1].start - captions[i].end <= MIN_GAP_MS,
             Msg("gap", i, 0, captions[i + 1].start - captions[i].end))])

\* ... and on allWarnings
PairWarnings(captions) ==
    Flatten([i \in 1..(Len(captions) - 1) |->
        When(~(captions[i].end > captions[i + 1].start)
                /\ captions[i + 1].start - captions[i].end < MIN_GAP_MS,
             Msg("gap", i, 0, captions[i + 1].start - captions[i].end))])

validateAllCaptions(captions) ==
    LET each == [i \in 1..Len(captions) |-> validateCaption(captions[i], i - 1)]
        allWarnings == Flatten([i \in 1..Len(captions) |-> each[i].warnings])
                          \o PairWarnings(captions)
        allErrors == Flatten([i \in 1..Len(captions) |-> each[i].errors])
                          \o PairErrors(captions)
    IN  [isValid |-> Len(allErrors) = 0, warnings |-> allWarnings, errors |-> allErrors]

-----------------------------------------------------------------------------
(* caption-utils: statistics.  A quotient of two integers is kept as the    *)
(* pair it was computed from; two quotients are the same number when their *)
(* cross products agree.                                                   *)

Quotient(num, den) == [num |-> num, den |-> den]

Zero == Quotient(0, 1)

SameNumber(a, b) == a.num * b.den = b.num * a.den

\* let shortestCaption = Infinity
Infinity == [infinite |-> TRUE, value |-> 0]

Finite(n) == [infinite |-> FALSE, value |-> n]

MathMax(a, b) == IF a > b THEN a ELSE b

\* Math.min(shortestCaption, chars)
MathMin(shortest, chars) ==
    IF shortest.infinite \/ chars < shortest.value THEN Finite(chars) ELSE shortest

StatsStart_ShortestZero ==
    [totalDuration |-> 0, totalChars |-> 0, longestCaption |-> 0,
     shortestCaption |-> Finite(0)]

\* let totalDuration = 0; let totalChars = 0; let longestCaption = 0; ...
StatsStart ==
    [totalDuration |-> 0, totalChars |-> 0, longestCaption |-> 0,
     shortestCaption |-> Infinity]

\* captions.forEach(cap => { ... })
RECURSIVE StatsLoop(_, _)
StatsLoop(captions, acc) ==
    IF Len(captions) = 0 THEN acc
    ELSE LET cap == Head(captions)
             duration == cap.end - cap.start
             chars == Len(cap.text)
         IN  StatsLoop(Tail(captions),
                [totalDuration |-> acc.totalDuration + duration,
                 totalChars |-> acc.totalChars + chars,
                 longestCaption |-> MathMax(acc.longestCaption, chars),
                 shortestCaption |-> MathMin(acc.shortestCaption, chars)])

calculateStats(captions) ==
    IF Len(captions) = 0
    THEN [totalCaptions |-> 0, totalDuration |-> 0, averageDuration |-> Zero,
          averageCPS |-> Zero, longestCaption |-> 0, shortestCaption |-> 0]
    ELSE LET acc == StatsLoop(captions, StatsStart) IN
         [totalCaptions |-> Len(captions),
          totalDuration |-> acc.totalDuration,
          averageDuration |-> Quotient(acc.totalDuration, Len(captions)),
          averageCPS |-> IF acc.totalDuration > 0
                         THEN Quotient(acc.totalChars * 1000, acc.totalDuration)
                         ELSE Zero,
          longestCaption |-> acc.longestCaption,
          shortestCaption |-> IF acc.shortestCaption.infinite THEN 0
                              ELSE acc.shortestCaption.value]

-----------------------------------------------------------------------------
(* video-player / caption-editor: the active-segment locator *)

\* null, and a value where null is possible
Null == [isNull |-> TRUE]

Some(n) == [isNull |-> FALSE, value |-> n]

findActiveCaptionIndex_EndInclusive(captions, currentTimeMs) ==
    LET hits == {i \in 1..Len(captions) :
                    currentTimeMs >= captions[i].start /\ currentTimeMs <= captions[i].end}
    IN  IF hits = {} THEN Null
        ELSE Some((CHOOSE i \in hits : \A j \in hits : i <= j) - 1)

\* for (let i = 0; i < captions.length; i++) { if (...) return i } return null
RECURSIVE FindFrom(_, _, _)
FindFrom(captions, currentTimeMs, i) ==
    IF ~(i < Len(captions)) THEN Null
    ELSE IF currentTimeMs >= captions[i + 1].start /\ currentTimeMs < captions[i + 1].end
    THEN Some(i)
    ELSE FindFrom(captions, currentTimeMs, i + 1)

findActiveCaptionIndex(captions, currentTimeMs) == FindFrom(captions, currentTimeMs, 0)

\* captions.find(cap => currentVideoTime >= cap.start && currentVideoTime < cap.end)?.id || null
videoCaptionId(captions, currentVideoTime) ==
    LET found == SelectSeq(captions,
                    LAMBDA cap : currentVideoTime >= cap.start /\ currentVideoTime < cap.end)
    IN  IF Len(found) = 0 THEN Null ELSE Some(found[1].id)

-----------------------------------------------------------------------------
(* caption-utils: time conversion, and the time editor of CaptionCard *)

msToSrtTime_NoMinuteWrap(ms) ==
    LET hours == ms \div 3600000
        minutes == ms \div 60000
        seconds == (ms % 60000) \div 1000
        milliseconds == ms % 1000
    IN  PadStart(NumToStr(hours), 2) \o <<":">> \o PadStart(NumToStr(minutes), 2) \o <<":">>
            \o PadStart(NumToStr(seconds), 2) \o <<",">> \o PadStart(NumToStr(milliseconds), 3)

msToSrtTime(ms) ==
    LET hours == ms \div 3600000
        minutes == (ms % 3600000) \div 60000
        seconds == (ms % 60000) \div 1000
        milliseconds == ms % 1000
    IN  PadStart(NumToStr(hours), 2) \o <<":">> \o PadStart(NumToStr(minutes), 2) \o <<":">>
            \o PadStart(NumToStr(seconds), 2) \o <<",">> \o PadStart(NumToStr(milliseconds), 3)

\* /(\d{2}):(\d{2}):(\d{2})[,.](\d{3})/ matched at position i of the string
TimeMatchAt(timeStr, i) ==
    /\ i + 11 <= Len(timeStr)
    /\ AllDigits(SubSeq(timeStr, i, i + 1)) /\ timeStr[i + 2] = ":"
    /\ AllDigits(SubSeq(timeStr, i + 3, i + 4)) /\ timeStr[i + 5] = ":"
    /\ AllDigits(SubSeq(timeStr, i + 6, i + 7)) /\ timeStr[i + 8] \in {",", "."}
    /\ AllDigits(SubSeq(timeStr, i + 9, i + 11))

\* timeStr.match(...): the position of the leftmost match, 0 for null
TimeMatch(timeStr) ==
    IF \E i \in 1..Len(timeStr) : TimeMatchAt(timeStr, i)
    THEN CHOOSE i \in 1..Len(timeStr) :
            TimeMatchAt(timeStr, i) /\ \A j \in 1..(i - 1) : ~TimeMatchAt(timeStr, j)
    ELSE 0

\* the number returned, or the Error thrown
srtTimeToMs(timeStr) ==
    LET i == TimeMatch(timeStr) IN
    IF i = 0 THEN [threw |-> TRUE, value |-> 0]
    ELSE [threw |-> FALSE,
          value |-> ParseInt(SubSeq(timeStr, i, i + 1)) * 3600000
                      + ParseInt(SubSeq(timeStr, i + 3, i + 4)) * 60000
                      + ParseInt(SubSeq(timeStr, i + 6, i + 7)) * 1000
                      + ParseInt(SubSeq(timeStr, i + 9, i + 11))]

\* CaptionCard.applyTimeChanges: the patch handed to onUpdate, or the revert
applyTimeChanges(startTimeStr, endTimeStr) ==
    LET newStart == srtTimeToMs(startTimeStr)
        newEnd == srtTimeToMs(endTimeStr)
    IN  IF newStart.threw \/ newEnd.threw
        THEN [reverted |-> TRUE, start |-> 0, end |-> 0]
        ELSE [reverted |-> FALSE, start |-> newStart.value, end |-> newEnd.value]

-----------------------------------------------------------------------------
(* useHistory: the specification *)

\* the value committed by the i-th of a run of commits that cycles through
\* the numbers 0..MaxValue, starting from initialState
CycleValue(i) == [n |-> i % (MaxValue + 1), keys |-> "n,tag"]

\* useHistory(initialState)
FreshHistory ==
    /\ past = <<>>
    /\ present = initialState
    /\ future = <<>>
    /\ isUndoRedoRef = FALSE
    /\ born = "fresh"

\* the hook after setState(CycleValue(1)), ..., setState(CycleValue(MAX_HISTORY_SIZE))
FullHistory ==
    /\ past = [i \in 1..MAX_HISTORY_SIZE |-> CycleValue(i - 1)]
    /\ present = CycleValue(MAX_HISTORY_SIZE)
    /\ future = <<>>
    /\ isUndoRedoRef = FALSE
    /\ born = "full"

EnvInit == dateNow = 0 /\ randomDraws = 0

CodecIdle ==
    /\ codecInput = <<>>
    /\ codecFormat = "SRT"
    /\ codecText = <<>>
    /\ codecParsed = [error |-> FALSE, captions |-> <<>>]
    /\ codecPc = "input"

StoreIdle == session = <<>> /\ removedIds = {}

\* Home after mount: the effect has run once on the empty text
PageIdle ==
    /\ originalCaptions = <<>>
    /\ captionObjects = <<>>
    /\ captionFormat = "SRT"
    /\ isUpdatingFromVisual = FALSE
    /\ lastDeps = <<<<>>, FALSE>>
    /\ pageLast = [event |-> "mount", before |-> <<>>, edit |-> <<>>]
    /\ pageEvents = 0

NoValidation == [isValid |-> TRUE, warnings |-> <<>>, errors |-> <<>>]

OpsIdle ==
    /\ opInput = <<>>
    /\ opCall = [op |-> "none"]
    /\ memory = Memory(<<>>)

ValIdle ==
    /\ valInput = <<>>
    /\ valCall = [fn |-> "none"]
    /\ valResult = NoValidation

FnIdle ==
    /\ fnInput = <<>>
    /\ fnCall = "none"
    /\ fnResult = Null

BatchIdle == pending = <<>>

PlayerIdle ==
    /\ playerCaptions = <<>>
    /\ videoCurrentTime = 0
    /\ currentTime = 0
    /\ activeCaptionIndex = Null
    /\ playerLast = "mount"
    /\ playerEvents = 0

ApiIdle ==
    /\ apiRequest = "none"
    /\ apiServices = [openai |-> "unconfigured", assemblyai |-> "unconfigured"]
    /\ apiPc = "idle"
    /\ apiTranscription = Null
    /\ apiAttempts = <<>>
    /\ apiResponse = Null

MoreIdle == FnIdle /\ BatchIdle /\ PlayerIdle /\ ApiIdle

CallIdle == OpsIdle /\ ValIdle /\ MoreIdle

HistoryInit ==
    /\ FreshHistory \/ FullHistory
    /\ log = <<>>
    /\ pre = Snapshot

NotHistory == UNCHANGED <<envVars, codecVars, storeVars, pageVars, callVars>>

CallSetState ==
    /\ Len(log) < MaxSteps
    /\ \E newState \in SetStateInputs : setState(newState)
    /\ NotHistory
CallUndo == Len(log) < MaxSteps /\ undo /\ NotHistory
CallRedo == Len(log) < MaxSteps /\ redo /\ NotHistory
CallClear == Len(log) < MaxSteps /\ clear /\ NotHistory

Init == HistoryInit /\ EnvInit /\ CodecIdle /\ StoreIdle /\ PageIdle /\ CallIdle

Next == CallSetState \/ CallUndo \/ CallRedo \/ CallClear

Spec == Init /\ [][Next]_vars

-----------------------------------------------------------------------------
(* Sample inputs *)

Str_a == <<"a">>
Str_b == <<"b">>
Str_a_b == <<"a", " ", "b">>
Str_a_nl_b == <<"a", NL, "b">>
Str_sp_a == <<" ", "a">>
Str_a_sp == <<"a", " ">>
Str_a_nl_sp_b == <<"a", NL, " ", "b">>
Str_a_nl_nl_b == <<"a", NL, NL, "b">>

\* Date.now(): the clock does not run backwards, and may not have advanced
ReadClock(t) == t \in dateNow..MaxClock /\ dateNow' = t

-----------------------------------------------------------------------------
(* SpecCodec: serializeCaptions then parseCaptions *)

CodecTexts == {Str_a, Str_a_b, Str_a_nl_b, Str_sp_a, Str_a_sp, Str_a_nl_sp_b,
               Str_a_nl_nl_b, <<>>}

\* 00:00:00,000-00:00:01,000  00:00:01,000-00:00:03,500  01:01:01,001-99:59:59,999
CodecIntervals == {<<0, 1000>>, <<1000, 3500>>, <<3661001, 359999999>>}

CodecSegments ==
    {[id |-> IndexId(0, 0), start |-> iv[1], end |-> iv[2], text |-> t] :
        iv \in CodecIntervals, t \in CodecTexts}

CodecCollections ==
    UNION {[1..n -> CodecSegments] : n \in 1..MaxCaptions}

CodecInit ==
    /\ codecInput \in CodecCollections
    /\ codecFormat \in {"SRT", "VTT"}
    /\ codecText = <<>>
    /\ codecParsed = [error |-> FALSE, captions |-> <<>>]
    /\ codecPc = "input"

CodecSerialize ==
    /\ codecPc = "input"
    /\ codecText' = serializeCaptions(codecInput, codecFormat)
    /\ codecPc' = "serialized"
    /\ UNCHANGED <<codecInput, codecFormat, codecParsed>>
    /\ UNCHANGED <<callVars, historyVars, envVars, storeVars, pageVars>>

CodecParse ==
    /\ codecPc = "serialized"
    /\ \E t \in 0..MaxClock :
          /\ ReadClock(t)
          /\ codecParsed' = parseCaptions(codecText, t)
    /\ codecPc' = "parsed"
    /\ UNCHANGED <<codecInput, codecFormat, codecText, randomDraws>>
    /\ UNCHANGED <<callVars, historyVars, storeVars, pageVars>>

HistoryIdle ==
    /\ FreshHistory
    /\ log = <<>>
    /\ pre = Snapshot

CodecNext == CodecSerialize \/ CodecParse

InitCodec == CodecInit /\ HistoryIdle /\ EnvInit /\ StoreIdle /\ PageIdle /\ CallIdle

SpecCodec == InitCodec /\ [][CodecNext]_vars

-----------------------------------------------------------------------------
(* SpecStore: an editing session on the Segment Store *)

SRT_a == stringifySync(<<[start |-> 0, end |-> 2000, text |-> Str_a]>>, "SRT")
SRT_ab == stringifySync(<<[start |-> 0, end |-> 2000, text |-> Str_a],
                          [start |-> 1000, end |-> 3000, text |-> Str_b]>>, "SRT")
VTT_ab == stringifySync(<<[start |-> 0, end |-> 2000, text |-> Str_a],
                          [start |-> 3000, end |-> 5000, text |-> Str_a_nl_b]>>, "VTT")

StoreFiles == {SRT_a, SRT_ab, VTT_ab}

StoreDrafts == {[start |-> 2000, end |-> 5000, text |-> <<>>],
                [start |-> 500, end |-> 1500, text |-> Str_b]}

StorePatches == {[fields |-> {"text"}, start |-> 0, end |-> 0, text |-> Str_a_b],
                 [fields |-> {"start", "end"}, start |-> 1000, end |-> 1500, text |-> <<>>]}

\* the file is loaded: the parsed collection replaces the session's
StoreParse ==
    /\ \E text \in StoreFiles, t \in 0..MaxClock :
          /\ ReadClock(t)
          /\ ~parseCaptions(text, t).error
          /\ session' = parseCaptions(text, t).captions
    /\ UNCHANGED <<removedIds, randomDraws>>
    /\ UNCHANGED <<callVars, historyVars, codecVars, pageVars>>

StoreInsert ==
    /\ Len(session) < MaxCaptions
    /\ randomDraws < MaxRandom
    /\ \E index \in 0..Len(session), draft \in StoreDrafts, t \in 0..MaxClock :
          /\ ReadClock(t)
          /\ session' = addCaption(session, index, draft, t, randomDraws + 1)
    /\ randomDraws' = randomDraws + 1
    /\ UNCHANGED removedIds
    /\ UNCHANGED <<callVars, historyVars, codecVars, pageVars>>

StoreUpdate ==
    /\ \E id \in Ids(session) \cup removedIds, updates \in StorePatches :
          session' = updateCaption(session, id, updates)
    /\ UNCHANGED <<removedIds, envVars>>
    /\ UNCHANGED <<callVars, historyVars, codecVars, pageVars>>

StoreRemove ==
    /\ \E id \in Ids(session) \cup removedIds :
          /\ session' = deleteCaption(session, id)
          /\ removedIds' = removedIds \cup ({id} \cap Ids(session))
    /\ UNCHANGED envVars
    /\ UNCHANGED <<callVars, historyVars, codecVars, pageVars>>

StoreMove ==
    /\ \E fromIndex \in 0..(Len(session) - 1), toIndex \in 0..(Len(session) - 1) :
          session' = reorderCaptions(session, fromIndex, toIndex)
    /\ UNCHANGED <<removedIds, envVars>>
    /\ UNCHANGED <<callVars, historyVars, codecVars, pageVars>>

StoreNext == StoreParse \/ StoreInsert \/ StoreUpdate \/ StoreRemove \/ StoreMove

InitStore == StoreIdle /\ HistoryIdle /\ EnvInit /\ CodecIdle /\ PageIdle /\ CallIdle

SpecStore == InitStore /\ [][StoreNext]_vars


-----------------------------------------------------------------------------
(* SpecPage: the page component Home.  A handler runs when the effects of   *)
(* the previous render have run; the effect runs after every render in     *)
(* which one of its dependencies differs from the render before.           *)

Garbage == <<"x">>
PageTexts == {SRT_a, SRT_ab, VTT_ab, Garbage, <<>>}

PagePatches == {[fields |-> {"text"}, start |-> 0, end |-> 0, text |-> Str_a_b],
                [fields |-> {"start", "end"}, start |-> 1000, end |-> 1500, text |-> <<>>]}

PageSettled == lastDeps = <<originalCaptions, isUpdatingFromVisual>>

\* useEffect(() => { ... }, [originalCaptions, isUpdatingFromVisual])
ParseEffect ==
    /\ ~PageSettled
    /\ lastDeps' = <<originalCaptions, isUpdatingFromVisual>>
    /\ IF isUpdatingFromVisual
          THEN /\ isUpdatingFromVisual' = FALSE
               /\ UNCHANGED <<captionObjects, captionFormat, dateNow>>
          ELSE /\ UNCHANGED isUpdatingFromVisual
               /\ IF Trim(originalCaptions) # <<>>
                     THEN LET format == detectFormat(originalCaptions) IN
                          IF format # "UNKNOWN"
                             THEN /\ captionFormat' = format
                                  /\ \E t \in 0..MaxClock :
                                        /\ ReadClock(t)
                                        /\ LET parsed == parseCaptions(originalCaptions, t) IN
                                           captionObjects' =
                                               IF parsed.error THEN captionObjects
                                               ELSE parsed.captions
                             ELSE UNCHANGED <<captionObjects, captionFormat, dateNow>>
                     ELSE /\ captionObjects' = <<>>
                          /\ UNCHANGED <<captionFormat, dateNow>>
    /\ UNCHANGED <<originalCaptions, pageLast, pageEvents, randomDraws>>
    /\ UNCHANGED <<callVars, historyVars, codecVars, storeVars>>

\* the textarea's onChange and the file loaders: setOriginalCaptions(text)
SetOriginalCaptions ==
    /\ PageSettled /\ pageEvents < MaxPageEvents
    /\ \E text \in PageTexts : originalCaptions' = text
    /\ pageLast' = [event |-> "text", before |-> captionObjects, edit |-> captionObjects]
    /\ pageEvents' = pageEvents + 1
    /\ UNCHANGED <<captionObjects, captionFormat, isUpdatingFromVisual, lastDeps>>
    /\ UNCHANGED <<callVars, historyVars, envVars, codecVars, storeVars>>

handleCaptionObjectsChange(updatedCaptions) ==
    /\ captionObjects' = updatedCaptions
    /\ isUpdatingFromVisual' = TRUE
    /\ originalCaptions' = serializeCaptions(updatedCaptions, captionFormat)
    /\ pageLast' = [event |-> "visual", before |-> captionObjects, edit |-> updatedCaptions]
    /\ pageEvents' = pageEvents + 1
    /\ UNCHANGED <<captionFormat, lastDeps>>

\* CaptionEditor.handleUpdate
handleUpdate ==
    /\ PageSettled /\ pageEvents < MaxPageEvents
    /\ \E id \in Ids(captionObjects), updates \in PagePatches :
          handleCaptionObjectsChange(updateCaption(captionObjects, id, updates))
    /\ UNCHANGED <<callVars, historyVars, envVars, codecVars, storeVars>>

\* CaptionEditor.handleDelete
handleDelete ==
    /\ PageSettled /\ pageEvents < MaxPageEvents
    /\ \E id \in Ids(captionObjects) :
          handleCaptionObjectsChange(deleteCaption(captionObjects, id))
    /\ UNCHANGED <<callVars, historyVars, envVars, codecVars, storeVars>>

\* CaptionEditor.handleAddCaption
handleAddCaption ==
    /\ PageSettled /\ pageEvents < MaxPageEvents
    /\ Len(captionObjects) < MaxCaptions
    /\ randomDraws < MaxRandom
    /\ LET nextStart == IF captionObjects = <<>> THEN 0
                        ELSE captionObjects[Len(captionObjects)].end
       IN  \E t \in 0..MaxClock :
              /\ ReadClock(t)
              /\ handleCaptionObjectsChange(
                     addCaption(captionObjects, Len(captionObjects),
                                [start |-> nextStart, end |-> nextStart + 3000,
                                 text |-> <<>>],
                                t, randomDraws + 1))
    /\ randomDraws' = randomDraws + 1
    /\ UNCHANGED <<callVars, historyVars, codecVars, storeVars>>

PageNext ==
    \/ ParseEffect
    \/ SetOriginalCaptions
    \/ handleUpdate
    \/ handleDelete
    \/ handleAddCaption

InitPage == PageIdle /\ HistoryIdle /\ EnvInit /\ CodecIdle /\ StoreIdle /\ CallIdle

SpecPage == InitPage /\ [][PageNext]_vars

-----------------------------------------------------------------------------
(* SpecOps: one call of a Segment Store function, with any integer index   *)
(* and any patch, on a collection of segments with distinct ids; then the  *)
(* validation the editor computes on the returned collection.              *)

OpsContents == {[start |-> 0, end |-> 2000, text |-> Str_a],
                [start |-> 1000, end |-> 3000, text |-> Str_b],
                [start |-> 3000, end |-> 5000, text |-> Str_a_nl_b]}

\* the segment a parse at clock 0 makes of cue number i
OpsSegment(content, i) ==
    [id |-> IndexId(0, i - 1), start |-> content.start, end |-> content.end,
     text |-> content.text]

OpsCollections ==
    UNION {{[i \in 1..n |-> OpsSegment(f[i], i)] : f \in [1..n -> OpsContents]}
              : n \in 0..MaxCaptions}

OpsIndexes == (0 - MaxCaptions - 1)..(MaxCaptions + 1)

OpsDrafts == StoreDrafts \cup {[start |-> 0 - 500, end |-> 500, text |-> Str_a]}

OpsPatches ==
    StorePatches \cup {[fields |-> {"start"}, start |-> 9000, end |-> 0, text |-> <<>>],
                       [fields |-> {"start"}, start |-> 0 - 1000, end |-> 0, text |-> <<>>],
                       [fields |-> {"start", "end"}, start |-> 500, end |-> 2500, text |-> <<>>]}

\* an id no segment of the collection has
StaleId == IndexId(0, MaxCaptions)

OpsIds == Ids(opInput) \cup {StaleId}

OpsInit ==
    /\ opInput \in OpsCollections
    /\ opCall = [op |-> "none"]
    /\ memory = Memory(opInput)

OpsInsert ==
    /\ opCall.op = "none"
    /\ \E index \in OpsIndexes, draft \in OpsDrafts, t \in 0..MaxClock :
          /\ ReadClock(t)
          /\ opCall' = [op |-> "addCaption", index |-> index, newCaption |-> draft,
                        id |-> RandomId(t, randomDraws + 1)]
          /\ memory' = addCaptionCall(memory, index, draft, t, randomDraws + 1)
    /\ randomDraws' = randomDraws + 1
    /\ UNCHANGED <<opInput, valVars>>
    /\ UNCHANGED <<moreVars, historyVars, codecVars, storeVars, pageVars>>

OpsUpdate ==
    /\ opCall.op = "none"
    /\ \E id \in OpsIds, updates \in OpsPatches :
          /\ opCall' = [op |-> "updateCaption", id |-> id, updates |-> updates]
          /\ memory' = updateCaptionCall(memory, id, updates)
    /\ UNCHANGED <<opInput, valVars>>
    /\ UNCHANGED <<moreVars, historyVars, envVars, codecVars, storeVars, pageVars>>

OpsRemove ==
    /\ opCall.op = "none"
    /\ \E id \in OpsIds :
          /\ opCall' = [op |-> "deleteCaption", id |-> id]
          /\ memory' = deleteCaptionCall(memory, id)
    /\ UNCHANGED <<opInput, valVars>>
    /\ UNCHANGED <<moreVars, historyVars, envVars, codecVars, storeVars, pageVars>>

OpsMove ==
    /\ opCall.op = "none"
    /\ \E fromIndex \in OpsIndexes, toIndex \in OpsIndexes :
          /\ opCall' = [op |-> "reorderCaptions", fromIndex |-> fromIndex,
                        toIndex |-> toIndex]
          /\ memory' = reorderCaptionsCall(memory, fromIndex, toIndex)
    /\ UNCHANGED <<opInput, valVars>>
    /\ UNCHANGED <<moreVars, historyVars, envVars, codecVars, storeVars, pageVars>>

\* CaptionEditor renders with the returned collection:
\* const validation = validateAllCaptions(captions)
OpsValidate ==
    /\ opCall.op # "none"
    /\ valCall.fn = "none"
    /\ \A i \in 1..Len(ResultOf(memory)) : IsCaption(ResultOf(memory)[i])
    /\ valInput' = ResultOf(memory)
    /\ valCall' = [fn |-> "validateAllCaptions"]
    /\ valResult' = validateAllCaptions(ResultOf(memory))
    /\ UNCHANGED opsVars
    /\ UNCHANGED <<moreVars, historyVars, envVars, codecVars, storeVars, pageVars>>

OpsNext == OpsInsert \/ OpsUpdate \/ OpsRemove \/ OpsMove \/ OpsValidate

InitOps == OpsInit /\ ValIdle /\ MoreIdle /\ HistoryIdle /\ EnvInit /\ CodecIdle /\ StoreIdle /\ PageIdle

SpecOps == InitOps /\ [][OpsNext]_vars

-----------------------------------------------------------------------------
(* SpecValidate: one call of validateCaption or validateAllCaptions on a   *)
(* collection drawn from segments around the thresholds.                   *)

\* a text of n characters on one line
Chars(n) == [i \in 1..n |-> "x"]

Str_3lines == <<"a", NL, "b", NL, "a">>

ValContents ==
    {[start |-> 0, end |-> 1000, text |-> Chars(17)],
     [start |-> 0, end |-> 1000, text |-> Chars(18)],
     [start |-> 0, end |-> 1000, text |-> Chars(21)],
     [start |-> 0, end |-> 1000, text |-> Chars(22)],
     [start |-> 0, end |-> 1000, text |-> Chars(11)],
     [start |-> 0, end |-> 2000, text |-> Str_a],
     [start |-> 1000, end |-> 3000, text |-> Str_b],
     [start |-> 1000, end |-> 1000, text |-> Str_a],
     [start |-> 2000, end |-> 1000, text |-> <<>>],
     [start |-> 0 - 500, end |-> 500, text |-> Chars(6)],
     [start |-> 0 - 2000, end |-> 0 - 1000, text |-> Chars(12)],
     [start |-> 1099, end |-> 2099, text |-> Chars(12)],
     [start |-> 1100, end |-> 8000, text |-> Str_3lines],
     [start |-> 2000, end |-> 4000, text |-> Chars(43)]}

ValCollections ==
    UNION {{[i \in 1..n |-> OpsSegment(f[i], i)] : f \in [1..n -> ValContents]}
              : n \in 0..MaxCaptions}

ValInit ==
    /\ valInput \in ValCollections
    /\ valCall = [fn |-> "none"]
    /\ valResult = NoValidation

CallValidateCaption ==
    /\ valCall.fn = "none"
    /\ \E index \in 0..(Len(valInput) - 1) :
          /\ valCall' = [fn |-> "validateCaption", index |-> index]
          /\ valResult' = validateCaption(valInput[index + 1], index)
    /\ UNCHANGED <<valInput, opsVars>>
    /\ UNCHANGED <<moreVars, historyVars, envVars, codecVars, storeVars, pageVars>>

CallValidateAllCaptions ==
    /\ valCall.fn = "none"
    /\ valCall' = [fn |-> "validateAllCaptions"]
    /\ valResult' = validateAllCaptions(valInput)
    /\ UNCHANGED <<valInput, opsVars>>
    /\ UNCHANGED <<moreVars, historyVars, envVars, codecVars, storeVars, pageVars>>

ValidateNext == CallValidateCaption \/ CallValidateAllCaptions

InitValidate ==
    ValInit /\ OpsIdle /\ MoreIdle /\ HistoryIdle /\ EnvInit /\ CodecIdle /\ StoreIdle /\ PageIdle

SpecValidate == InitValidate /\ [][ValidateNext]_vars

-----------------------------------------------------------------------------
(* SpecStats: one call of calculateStats on a drawn collection *)

OnlyFn ==
    UNCHANGED <<historyVars, envVars, codecVars, storeVars, pageVars, opsVars, valVars,
                pending, playerVars, apiVars>>

\* every specification of one pure call starts with everything else idle
FnRest ==
    /\ fnCall = "none"
    /\ fnResult = Null
    /\ OpsIdle /\ ValIdle /\ BatchIdle /\ PlayerIdle /\ ApiIdle
    /\ HistoryIdle /\ EnvInit /\ CodecIdle /\ StoreIdle /\ PageIdle

InitStats == fnInput \in ValCollections /\ FnRest

CallCalculateStats ==
    /\ fnCall = "none"
    /\ fnCall' = "calculateStats"
    /\ fnResult' = calculateStats(fnInput)
    /\ UNCHANGED fnInput
    /\ OnlyFn

SpecStats == InitStats /\ [][CallCalculateStats]_vars

-----------------------------------------------------------------------------
(* SpecLocator: the player and the editor locate the segment at one time   *)
(* in one collection.                                                      *)

LocTimes == {0, 999, 1000, 1999, 2000, 2999, 3000, 4999, 5000, 6000}

InitLocator ==
    /\ fnInput \in [captions : OpsCollections, timeMs : LocTimes]
    /\ FnRest

\* handleTimeUpdate in the player, then the editor renders with the same time
CallLocate ==
    /\ fnCall = "none"
    /\ fnCall' = "locate"
    /\ fnResult' =
          [activeIndex |-> findActiveCaptionIndex(fnInput.captions, fnInput.timeMs),
           videoCaptionId |-> videoCaptionId(fnInput.captions, fnInput.timeMs)]
    /\ UNCHANGED fnInput
    /\ OnlyFn

SpecLocator == InitLocator /\ [][CallLocate]_vars

-----------------------------------------------------------------------------
(* SpecDetect: one call of detectFormat on a text put together from a      *)
(* beginning, a timestamp line or none, and an end.                        *)

DetectBeginnings ==
    {<<>>, <<" ">>, <<"1", NL>>, <<"x", NL>>, <<NL, "1", " ", NL, NL>>,
     WEBVTT \o <<NL, NL>>, <<" ", NL>> \o WEBVTT \o <<NL, NL>>,
     <<"x", " ">> \o WEBVTT \o <<NL, NL>>}

\* start --> end with that fractional-seconds separator
TimestampLineWith(sep, arrow) ==
    FormatTimestamp(0, sep) \o arrow \o FormatTimestamp(2000, sep)

DetectMiddles ==
    {<<>>,
     TimestampLineWith(",", <<" ">> \o Arrow \o <<" ">>),
     TimestampLineWith(".", <<" ">> \o Arrow \o <<" ">>),
     TimestampLineWith(",", Arrow),
     TimestampLineWith(".", <<" ", " ">> \o Arrow),
     FormatTimestamp(0, ","),
     Tail(TimestampLineWith(",", <<" ">> \o Arrow \o <<" ">>)),
     FormatTimestamp(0, ".") \o <<" ", "-", ">", " ">> \o FormatTimestamp(2000, ".")}

DetectEndings == {<<>>, <<NL>> \o Str_a \o <<NL>>}

DetectTexts ==
    {b \o m \o e : b \in DetectBeginnings, m \in DetectMiddles, e \in DetectEndings}

InitDetect == fnInput \in DetectTexts /\ FnRest

CallDetectFormat ==
    /\ fnCall = "none"
    /\ fnCall' = "detectFormat"
    /\ fnResult' = detectFormat(fnInput)
    /\ UNCHANGED fnInput
    /\ OnlyFn

SpecDetect == InitDetect /\ [][CallDetectFormat]_vars

-----------------------------------------------------------------------------
(* SpecTime: a time is formatted by msToSrtTime and parsed back by         *)
(* srtTimeToMs; or the two fields of the time editor are applied.          *)

\* the first time whose hours need three digits
HundredHours == 100 * 3600000

TimeMs == {0, 1, 999, 1000, 59999, 60000, 3599999, 3661001, HundredHours - 1,
           HundredHours, HundredHours + 3661001}

TimeStrings ==
    {msToSrtTime(1000),
     msToSrtTime(3661001),
     <<"0", "0", ":", "0", "0", ":", "0", "1", ".", "0", "0", "0">>,
     <<"0", "0", ":", "0", "0", ":", "0", "1", ";", "0", "0", "0">>,
     <<"0", ":", "0", "0", ":", "0", "1", ",", "0", "0", "0">>,
     <<"0", "0", ":", "0", "0", ":", "0", "1", ",", "0", "0">>,
     <<"1">> \o msToSrtTime(1000),
     msToSrtTime(1000) \o <<"5">>,
     <<"x">> \o msToSrtTime(1000),
     msToSrtTime(1000) \o <<" ">>,
     <<"a", "a", ":", "0", "0", ":", "0", "1", ",", "0", "0", "0">>,
     <<>>}

InitTime ==
    /\ fnInput \in [ms : TimeMs, startTimeStr : TimeStrings, endTimeStr : TimeStrings]
    /\ FnRest

CallMsToSrtTime ==
    /\ fnCall = "none"
    /\ fnCall' = "msToSrtTime"
    /\ fnResult' = [timeStr |-> msToSrtTime(fnInput.ms)]
    /\ UNCHANGED fnInput
    /\ OnlyFn

\* the formatted time is parsed back
CallSrtTimeToMs ==
    /\ fnCall = "msToSrtTime"
    /\ fnCall' = "srtTimeToMs"
    /\ fnResult' = [timeStr |-> fnResult.timeStr, parsed |-> srtTimeToMs(fnResult.timeStr)]
    /\ UNCHANGED fnInput
    /\ OnlyFn

CallApplyTimeChanges ==
    /\ fnCall = "none"
    /\ fnCall' = "applyTimeChanges"
    /\ fnResult' = applyTimeChanges(fnInput.startTimeStr, fnInput.endTimeStr)
    /\ UNCHANGED fnInput
    /\ OnlyFn

TimeNext == CallMsToSrtTime \/ CallSrtTimeToMs \/ CallApplyTimeChanges

SpecTime == InitTime /\ [][TimeNext]_vars

-----------------------------------------------------------------------------
(* useHistory: reading the log of calls *)

NCalls == Len(log)
\* the k-th call counted from the last one (0 = the last call)
Call(k) == log[NCalls - k]
\* a commit: setState with a resolved value that is not deep-equal to the
\* present it was issued on
IsCommit(e) == e.op = "setState" /\ ~DeepEqual(e.arg, e.p)
StacksUnchanged ==
    /\ past = pre.past
    /\ present = pre.present
    /\ future = pre.future

-----------------------------------------------------------------------------
(* C1 - commit(v) with v not deep-equal to present, then undo(), leaves     *)
(* present equal to the present the commit was issued on.                  *)
C1_CommitUndoRestores ==
    (NCalls >= 2 /\ IsCommit(Call(1)) /\ Call(0).op = "undo")
        => present = Call(1).p

(* C2 - commit(v), undo(), redo() leaves present = v; and from a fresh      *)
(* history commit(1), commit(2), undo() leaves present = 1, future = [2],  *)
(* and a following redo() leaves present = 2, future = [].                 *)
C2_CommitUndoRedoRestores ==
    /\ (NCalls >= 3 /\ IsCommit(Call(2)) /\ Call(1).op = "undo" /\ Call(0).op = "redo")
          => present = Call(2).arg
    /\ (/\ born = "fresh" /\ NCalls >= 3
        /\ log[1].op = "setState" /\ log[1].arg.n = 1
        /\ log[2].op = "setState" /\ log[2].arg.n = 2
        /\ log[3].op = "undo")
          => /\ NCalls = 3 => (present.n = 1 /\ Len(future) = 1 /\ future[1].n = 2)
             /\ (NCalls = 4 /\ log[4].op = "redo") => (present.n = 2 /\ future = <<>>)

(* C3 - a commit issued after an undo() clears future: canRedo is false and *)
(* a redo() that follows changes nothing.                                  *)
C3_CommitAfterUndoClearsFuture ==
    /\ (NCalls >= 2 /\ Call(1).op = "undo" /\ IsCommit(Call(0)))
          => (future = <<>> /\ ~canRedo)
    /\ (NCalls >= 3 /\ Call(2).op = "undo" /\ IsCommit(Call(1)) /\ Call(0).op = "redo")
          => StacksUnchanged

(* C4 - the present restored by undo()/redo(), re-submitted through         *)
(* setState right after it, is not recorded: past, present and future are  *)
(* exactly what the undo/redo left.                                        *)
C4_ReplayNotRecorded ==
    (/\ NCalls >= 2
     /\ Call(1).op \in {"undo", "redo"}
     /\ Call(0).op = "setState"
     /\ Call(0).arg = Call(0).p)
        => StacksUnchanged

\* an undo moved an entry, leaving redo available, and the restored present
\* was then handed to setState
C4_Witness ==
    /\ NCalls >= 2
    /\ Call(1).op = "undo"
    /\ Call(0).op = "setState"
    /\ Call(0).arg = Call(0).p
    /\ pre.flag
    /\ Len(pre.future) > 0
    /\ Len(pre.past) > 0

(* C5 - past never holds more than MAX_HISTORY_SIZE entries; a commit made  *)
(* when past holds MAX_HISTORY_SIZE entries evicts the first entry and     *)
(* keeps the others in order; redo never takes past beyond the limit.      *)
C5_PastBounded ==
    /\ Len(past) <= MAX_HISTORY_SIZE
    /\ (NCalls >= 1 /\ IsCommit(Call(0)) /\ Len(pre.past) = MAX_HISTORY_SIZE)
          => past = Append(Tail(pre.past), pre.present)

(* C6 - a commit whose resolved value is deep-equal to present changes      *)
(* nothing: past, present and future are as before the call.               *)
C6_EqualCommitIsNoOp ==
    (NCalls >= 1 /\ Call(0).op = "setState" /\ DeepEqual(Call(0).arg, Call(0).p))
        => StacksUnchanged

(* C7 - undo() on an empty past and redo() on an empty future change        *)
(* nothing: past, present and future are as before the call.               *)
C7_UnderflowIsNoOp ==
    /\ (NCalls >= 1 /\ Call(0).op = "undo" /\ pre.past = <<>>) => StacksUnchanged
    /\ (NCalls >= 1 /\ Call(0).op = "redo" /\ pre.future = <<>>) => StacksUnchanged

\* undo() was called on an empty past while an entry was waiting in future
C7_Witness ==
    /\ NCalls >= 1
    /\ Call(0).op = "undo"
    /\ pre.past = <<>>
    /\ Len(pre.future) > 0

-----------------------------------------------------------------------------
(* C8 - an edit made in the visual editor is not followed by a re-parse of  *)
(* the serialized text: once the effects have settled, every segment the   *)
(* edit did not delete still has the id it had before the edit.            *)
C8_IdsStableAcrossVisualEdit ==
    (PageSettled /\ pageLast.event = "visual")
        => \A i \in 1..Len(pageLast.edit) :
              pageLast.edit[i].id \in Ids(pageLast.before)
                  => /\ i <= Len(captionObjects)
                     /\ captionObjects[i].id = pageLast.edit[i].id

-----------------------------------------------------------------------------
(* C9 - in a session of parse, insert, update, remove and move the segments *)
(* of the collection have pairwise distinct ids, and no segment carries    *)
(* the id of a segment removed earlier, whatever the clock read when it    *)
(* was created.                                                            *)
C9_IdsUniqueNeverReused ==
    /\ \A i, j \in 1..Len(session) : i # j => session[i].id # session[j].id
    /\ \A i \in 1..Len(session) : session[i].id \notin removedIds

-----------------------------------------------------------------------------
(* The content of a collection: start, end and text of its segments, in    *)
(* order.                                                                  *)
Content(captions) ==
    [i \in 1..Len(captions) |->
        <<captions[i].start, captions[i].end, captions[i].text>>]

NonOverlapping(captions) ==
    \A i, j \in 1..Len(captions) :
        i # j => (captions[i].end <= captions[j].start
                    \/ captions[j].end <= captions[i].start)

WellTimed(captions) ==
    \A i \in 1..Len(captions) : 0 <= captions[i].start /\ captions[i].start < captions[i].end

\* no reserved separator: no line of the text is blank, so the text holds
\* no cue separator
NoBlankLine(text) ==
    \A k \in 1..Len(SplitLines(text)) : ~IsBlankLine(SplitLines(text)[k])

\* no line of the text starts or ends with white space
NoOuterSpace(text) ==
    \A k \in 1..Len(SplitLines(text)) :
        LET line == SplitLines(text)[k] IN
        line # <<>> /\ ~IsSpace(line[1]) /\ ~IsSpace(line[Len(line)])

RoundTrips ==
    /\ ~codecParsed.error
    /\ Content(codecParsed.captions) = Content(codecInput)

-----------------------------------------------------------------------------
(* Segment Store: reading one call *)

Called(op) == opCall.op = op

\* array without its element at position k (1-based)
Without(array, k) == SubSeq(array, 1, k - 1) \o SubSeq(array, k + 1, Len(array))

\* clamp(index, 0, length)
Clamp(index, length) ==
    IF index < 0 THEN 0 ELSE IF index > length THEN length ELSE index

\* the position (1-based) of the segment with that id, 0 if there is none
PositionOf(array, id) ==
    IF \E i \in 1..Len(array) : array[i].id = id
    THEN CHOOSE i \in 1..Len(array) : array[i].id = id
    ELSE 0

(* C11 - addCaption(captions, index, draft) returns length + 1 segments,    *)
(* the new one at position clamp(index, 0, length) - 0 for every negative  *)
(* index - and the existing ones unchanged in their order.                 *)
C11_InsertAtClamps ==
    Called("addCaption") =>
        LET result == ResultOf(memory)
            k == Clamp(opCall.index, Len(opInput)) + 1
        IN  /\ Len(result) = Len(opInput) + 1
            /\ result[k].id = opCall.id
            /\ Without(result, k) = opInput

(* C12 - updateCaption(captions, id, patch) keeps length and order, gives   *)
(* the segment with that id the patch's named fields and leaves its id,    *)
(* its other fields and every other segment alone; with no such id the     *)
(* result equals the input.                                                *)
C12_UpdateReplacesNamedFields ==
    Called("updateCaption") =>
        LET result == ResultOf(memory)
            patch == opCall.updates
        IN  /\ Len(result) = Len(opInput)
            /\ \A i \in 1..Len(opInput) :
                  IF opInput[i].id = opCall.id
                  THEN /\ result[i].id = opInput[i].id
                       /\ result[i].start =
                             IF "start" \in patch.fields THEN patch.start ELSE opInput[i].start
                       /\ result[i].end =
                             IF "end" \in patch.fields THEN patch.end ELSE opInput[i].end
                       /\ result[i].text =
                             IF "text" \in patch.fields THEN patch.text ELSE opInput[i].text
                  ELSE result[i] = opInput[i]
            /\ (opCall.id \notin Ids(opInput)) => result = opInput

\* the second of two segments was given new times
C12_Witness ==
    /\ Called("updateCaption")
    /\ Len(opInput) = 2
    /\ opCall.id = opInput[2].id
    /\ opCall.updates.fields = {"start", "end"}
    /\ ResultOf(memory) # opInput

(* C13 - deleteCaption(captions, id) returns the input without the segment  *)
(* with that id, the others unchanged in their order; with no such id the  *)
(* result equals the input.                                                *)
C13_RemoveDropsMatching ==
    Called("deleteCaption") =>
        LET result == ResultOf(memory)
            k == PositionOf(opInput, opCall.id)
        IN  IF k = 0 THEN result = opInput ELSE result = Without(opInput, k)

\* a stale id was handed to deleteCaption on a collection of two segments
C13_Witness ==
    /\ Called("deleteCaption")
    /\ Len(opInput) = 2
    /\ opCall.id = StaleId
    /\ ResultOf(memory) = opInput

(* C14 - for all integers from and to, reorderCaptions(captions, from, to)  *)
(* returns a permutation of the input: same length, no element undefined,  *)
(* the same segments; for positions inside the array the segment formerly  *)
(* at from sits at to and the others keep their relative order.            *)
C14_MoveIsPermutation ==
    Called("reorderCaptions") =>
        LET result == ResultOf(memory)
            from == opCall.fromIndex
            to == opCall.toIndex
        IN  /\ Len(result) = Len(opInput)
            /\ \A i \in 1..Len(result) : IsCaption(result[i])
            /\ {result[i] : i \in 1..Len(result)} = {opInput[i] : i \in 1..Len(opInput)}
            /\ (from \in 0..(Len(opInput) - 1) /\ to \in 0..(Len(opInput) - 1)) =>
                  /\ result[to + 1] = opInput[from + 1]
                  /\ Without(result, to + 1) = Without(opInput, from + 1)

(* C15 - addCaption, updateCaption, deleteCaption and reorderCaptions leave *)
(* the array they were handed as it was: same segments, same order, same   *)
(* field values.                                                           *)
C15_InputNotModified ==
    ~Called("none") => ArgumentOf(memory) = opInput

\* reorderCaptions has returned an array that differs from the one it was
\* handed
C15_Witness ==
    /\ Called("reorderCaptions")
    /\ Len(opInput) = 2
    /\ ResultOf(memory) # opInput
    /\ ArgumentOf(memory) = opInput

-----------------------------------------------------------------------------
(* Validation: reading the result *)

Validated(fn) == valCall.fn = fn

\* how many messages of that kind name caption number `at`
Count(messages, kind, at) ==
    Len(SelectSeq(messages, LAMBDA m : m.kind = kind /\ m.at = at))

CountKind(messages, kind) ==
    Len(SelectSeq(messages, LAMBDA m : m.kind = kind))

\* two segments share some time
TimesIntersect(a, b) == a.start < b.end /\ b.start < a.end

C17_StartNonNegative ==
    ~Called("none") =>
        \A i \in 1..Len(ResultOf(memory)) :
            IsCaption(ResultOf(memory)[i]) => ResultOf(memory)[i].start >= 0

IsTimingError(m) == m.kind \in {"inverted", "negative"}

(* C18 - validateCaption reports an Error (isValid = FALSE) for a segment   *)
(* with start >= end, end - start = 0 included, or with a negative start   *)
(* or end, and no timing Error for a segment with 0 <= start < end.        *)
C18_TimingErrors ==
    Validated("validateCaption") =>
        LET caption == valInput[valCall.index + 1]
            at == valCall.index + 1
            timing == SelectSeq(valResult.errors, IsTimingError)
        IN  /\ (caption.start >= caption.end) =>
                  /\ Count(valResult.errors, "inverted", at) = 1
                  /\ ~valResult.isValid
            /\ (caption.start < 0 \/ caption.end < 0) =>
                  /\ Count(valResult.errors, "negative", at) = 1
                  /\ ~valResult.isValid
            /\ (0 <= caption.start /\ caption.start < caption.end) => Len(timing) = 0

\* validateCaption was called on a segment with end - start = 0
C18_Witness ==
    /\ Validated("validateCaption")
    /\ valInput[valCall.index + 1].end = valInput[valCall.index + 1].start
    /\ ~valResult.isValid

\* CPS = text length / duration in seconds, compared with k as a quotient:
\* for a negative duration the quotient is not positive, a positive length
\* over duration 0 exceeds every k, and 0 / 0 compares with nothing
StatedCpsAbove(chars, ms, k) ==
    IF ms > 0 THEN chars * 1000 > k * ms
    ELSE IF ms = 0 THEN chars > 0
    ELSE chars * 1000 < k * ms

StatedCpsBelow(chars, ms, k) ==
    IF ms > 0 THEN chars * 1000 < k * ms
    ELSE IF ms = 0 THEN FALSE
    ELSE chars * 1000 > k * ms

(* C19 - with CPS = text length / duration in seconds, validateCaption      *)
(* records a CPS Error iff CPS > 21, a fast-reading Warning iff            *)
(* 17 < CPS <= 21, a slow-reading Warning iff CPS < 12 and duration > 1 s, *)
(* and never more than one of the three.                                   *)
C19_ReadingSpeedClasses ==
    Validated("validateCaption") =>
        LET caption == valInput[valCall.index + 1]
            ms == caption.end - caption.start
            chars == Len(caption.text)
            error == CountKind(valResult.errors, "cpsError")
            fast == CountKind(valResult.warnings, "cpsFast")
            slow == CountKind(valResult.warnings, "cpsSlow")
        IN  /\ (error = 1) <=> StatedCpsAbove(chars, ms, 21)
            /\ (fast = 1) <=> (StatedCpsAbove(chars, ms, 17) /\ ~StatedCpsAbove(chars, ms, 21))
            /\ (slow = 1) <=> (StatedCpsBelow(chars, ms, 12) /\ ms > 1000)
            /\ error + fast + slow <= 1

-----------------------------------------------------------------------------
(* Statistics: the reference aggregate *)

RECURSIVE TotalDuration(_)
TotalDuration(captions) ==
    IF Len(captions) = 0 THEN 0
    ELSE (Head(captions).end - Head(captions).start) + TotalDuration(Tail(captions))

RECURSIVE TotalChars(_)
TotalChars(captions) ==
    IF Len(captions) = 0 THEN 0
    ELSE Len(Head(captions).text) + TotalChars(Tail(captions))

TextLengths(captions) == {Len(captions[i].text) : i \in 1..Len(captions)}

\* count, totalDuration, averageDuration, longest and shortest of the reference
StatsBasics(captions, stats) ==
    IF Len(captions) = 0
    THEN /\ stats.totalCaptions = 0 /\ stats.totalDuration = 0
         /\ SameNumber(stats.averageDuration, Zero) /\ SameNumber(stats.averageCPS, Zero)
         /\ stats.longestCaption = 0 /\ stats.shortestCaption = 0
    ELSE /\ stats.totalCaptions = Len(captions)
         /\ stats.totalDuration = TotalDuration(captions)
         /\ SameNumber(stats.averageDuration,
                       Quotient(TotalDuration(captions), Len(captions)))
         /\ stats.longestCaption \in TextLengths(captions)
         /\ \A n \in TextLengths(captions) : n <= stats.longestCaption
         /\ stats.shortestCaption \in TextLengths(captions)
         /\ \A n \in TextLengths(captions) : n >= stats.shortestCaption

\* calculateStats was called on a collection of two segments of different
\* text length with a positive total duration
C21_Witness ==
    /\ fnCall = "calculateStats"
    /\ Len(fnInput) = 2
    /\ Len(fnInput[1].text) > Len(fnInput[2].text)
    /\ fnResult.totalDuration > 0
    /\ fnResult.shortestCaption = Len(fnInput[2].text)

\* as stated: averageCPS is total characters / total duration in seconds for
\* every non-empty collection; no number is that quotient when the total
\* duration is 0
C21_StatsAsStated ==
    (fnCall = "calculateStats") =>
        /\ StatsBasics(fnInput, fnResult)
        /\ (Len(fnInput) > 0) =>
              /\ TotalDuration(fnInput) # 0
              /\ fnResult.averageCPS.num * TotalDuration(fnInput)
                    = TotalChars(fnInput) * 1000 * fnResult.averageCPS.den

(* C21 - calculateStats returns count = number of segments, totalDuration   *)
(* = sum of end - start, averageDuration = totalDuration / count,          *)
(* averageCPS = total characters / total duration in seconds when the total *)
(* duration is positive and 0 otherwise, longest / shortest = max / min    *)
(* text length; every field is 0 for the empty collection.                 *)
C21_StatsReference ==
    (fnCall = "calculateStats") =>
        /\ StatsBasics(fnInput, fnResult)
        /\ (Len(fnInput) > 0) =>
              IF TotalDuration(fnInput) > 0
              THEN SameNumber(fnResult.averageCPS,
                              Quotient(TotalChars(fnInput) * 1000,
                                       TotalDuration(fnInput)))
              ELSE SameNumber(fnResult.averageCPS, Zero)

-----------------------------------------------------------------------------
(* Locator *)

\* the positions (1-based) of the segments whose [start, end) contains t
Containing(captions, t) ==
    {i \in 1..Len(captions) : captions[i].start <= t /\ t < captions[i].end}

(* C22 - findActiveCaptionIndex(captions, t) is the smallest index i with   *)
(* start_i <= t < end_i, or null when no segment contains t (a t equal to  *)
(* a segment's end is not in that segment); it depends on (captions, t)    *)
(* only; and the editor's highlighted id is the id of the segment at that  *)
(* index.                                                                  *)
C22_LocatorFirstMatch ==
    (fnCall = "locate") =>
        LET hits == Containing(fnInput.captions, fnInput.timeMs) IN
        /\ IF hits = {}
           THEN fnResult.activeIndex.isNull /\ fnResult.videoCaptionId.isNull
           ELSE /\ ~fnResult.activeIndex.isNull
                /\ fnResult.activeIndex.value + 1 \in hits
                /\ \A i \in hits : fnResult.activeIndex.value + 1 <= i
                /\ ~fnResult.videoCaptionId.isNull
                /\ fnResult.videoCaptionId.value
                      = fnInput.captions[fnResult.activeIndex.value + 1].id
        /\ \A i \in 1..Len(fnInput.captions) :
              (fnInput.timeMs = fnInput.captions[i].end) =>
                  (fnResult.activeIndex.isNull \/ fnResult.activeIndex.value + 1 # i)

\* the time is the end of the first segment and lies inside the second
C22_Witness ==
    /\ fnCall = "locate"
    /\ Len(fnInput.captions) = 2
    /\ fnInput.timeMs = fnInput.captions[1].end
    /\ Containing(fnInput.captions, fnInput.timeMs) = {2}
    /\ fnResult.activeIndex = Some(1)

-----------------------------------------------------------------------------
(* Format detection: the reference classifier *)

\* where the first 'start --> end' pair of the text begins, 0 if there is none
FirstPair(s) ==
    IF \E i \in 1..Len(s) : TimestampPairAt(s, i)
    THEN CHOOSE i \in 1..Len(s) :
            TimestampPairAt(s, i) /\ \A j \in 1..(i - 1) : ~TimestampPairAt(s, j)
    ELSE 0

ReferenceFormat(s) ==
    IF StartsWith(Trim(s), WEBVTT) THEN "VTT"
    ELSE IF FirstPair(s) = 0 THEN "UNKNOWN"
    ELSE IF s[FirstPair(s) + 8] = "," THEN "SRT"
    ELSE "VTT"

(* C23 - detectFormat answers VTT when the trimmed text starts with WEBVTT; *)
(* otherwise it goes by the fractional-seconds separator of the first      *)
(* 'start --> end' pair (comma SRT, period VTT); UNKNOWN exactly when the  *)
(* text has neither the marker nor such a pair.                            *)
C23_DetectFormatReference ==
    (fnCall = "detectFormat") => fnResult = ReferenceFormat(fnInput)

-----------------------------------------------------------------------------
(* Time conversion *)

\* exactly HH:MM:SS,mmm
IsFixedWidthSrtTime(timeStr) ==
    /\ Len(timeStr) = 12
    /\ AllDigits(SubSeq(timeStr, 1, 2)) /\ timeStr[3] = ":"
    /\ AllDigits(SubSeq(timeStr, 4, 5)) /\ timeStr[6] = ":"
    /\ AllDigits(SubSeq(timeStr, 7, 8)) /\ timeStr[9] = ","
    /\ AllDigits(SubSeq(timeStr, 10, 12))

(* C24 - srtTimeToMs throws on every string that is not exactly of the form *)
(* HH:MM:SS,mmm, so applyTimeChanges stores no time taken from such a      *)
(* string.                                                                 *)
C24_MalformedTimeRejected ==
    (fnCall = "applyTimeChanges") =>
        ((~IsFixedWidthSrtTime(fnInput.startTimeStr) \/ ~IsFixedWidthSrtTime(fnInput.endTimeStr))
            => fnResult.reverted)

\* as stated: for every integer ms >= 0
C25_TimeRoundTripAsStated ==
    (fnCall = "srtTimeToMs") =>
        (~fnResult.parsed.threw /\ fnResult.parsed.value = fnInput.ms)

(* C25 - for every integer ms with 0 <= ms < 100 h,                         *)
(* srtTimeToMs(msToSrtTime(ms)) = ms.                                      *)
C25_TimeRoundTrip ==
    (fnCall = "srtTimeToMs" /\ fnInput.ms < HundredHours) =>
        (~fnResult.parsed.threw /\ fnResult.parsed.value = fnInput.ms)

\* 1 h 1 min 1.001 s went through msToSrtTime and srtTimeToMs
C25_Witness ==
    /\ fnCall = "srtTimeToMs"
    /\ fnInput.ms = 3661001
    /\ fnResult.timeStr = msToSrtTime(3661001)
    /\ fnResult.parsed.value = 3661001

-----------------------------------------------------------------------------
(* C26 - once the effects have settled after text edits, file loads and     *)
(* visual edits, captionObjects is start/end/text-equal to the parse of    *)
(* the current originalCaptions, and empty when the text is blank or has   *)
(* no parse: the visual collection never lags behind the text.             *)
C26_VisualFollowsText ==
    PageSettled =>
        IF Trim(originalCaptions) = <<>> THEN captionObjects = <<>>
        ELSE LET parsed == parseCaptions(originalCaptions, 0) IN
             IF parsed.error THEN captionObjects = <<>>
             ELSE Content(captionObjects) = Content(parsed.captions)

-----------------------------------------------------------------------------
(***************************************************************************)
(* The transcription route (POST, tryOpenAI, tryAssemblyAI).  The request  *)
(* and what each service would answer are drawn at the start; the handler  *)
(* advances from one await to the next.                                    *)
(***************************************************************************)

\* the request body: multipart form data with an 'audio' file, form data
\* without that field, or a body req.formData() rejects
ApiRequests == {"audio", "noAudioField", "notFormData"}

\* what the OpenAI client does when it is called
OpenAIOutcomes == {"unconfigured", "throws", "empty", "srt"}

\* what the AssemblyAI client does; "error" is transcript.status === 'error'
AssemblyAIOutcomes == {"unconfigured", "throws", "error", "empty", "srt"}

\* the text a service answers with
TranscriptOf(outcome) == IF outcome = "empty" THEN <<>> ELSE SRT_a

\* !transcription
NoTranscription(transcription) ==
    transcription = Null \/ transcription.value = <<>>

tryOpenAI(outcome) ==
    IF outcome = "unconfigured" THEN Null
    ELSE IF outcome = "throws" THEN Null
    ELSE Some(TranscriptOf(outcome))

tryAssemblyAI(outcome) ==
    IF outcome = "unconfigured" THEN Null
    ELSE IF outcome \in {"throws", "error"} THEN Null
    ELSE Some(TranscriptOf(outcome))

Response(status, body) == [status |-> status, body |-> body]

OnlyApi ==
    UNCHANGED <<historyVars, envVars, codecVars, storeVars, pageVars, opsVars, valVars,
                fnVars, pending, playerVars>>

\* await req.formData(); formData.get('audio'); if (!audioFile) -> 400;
\* a rejected formData() lands in the outer catch -> 500
ApiReceive ==
    /\ apiPc = "idle"
    /\ IF apiRequest = "notFormData"
       THEN /\ apiResponse' = Some(Response(500, "Error transcribing audio"))
            /\ apiPc' = "done"
       ELSE IF apiRequest = "noAudioField"
       THEN /\ apiResponse' = Some(Response(400, "No audio file provided"))
            /\ apiPc' = "done"
       ELSE /\ apiResponse' = apiResponse
            /\ apiPc' = "openai"
    /\ UNCHANGED <<apiRequest, apiServices, apiTranscription, apiAttempts>>
    /\ OnlyApi

\* let transcription = await tryOpenAI(audioFile); if (!transcription) ...
ApiTryOpenAI ==
    /\ apiPc = "openai"
    /\ apiAttempts' = Append(apiAttempts, "openai")
    /\ apiTranscription' = tryOpenAI(apiServices.openai)
    /\ apiPc' = IF NoTranscription(apiTranscription') THEN "assemblyai" ELSE "respond"
    /\ UNCHANGED <<apiRequest, apiServices, apiResponse>>
    /\ OnlyApi

\* transcription = await tryAssemblyAI(audioFile)
ApiTryAssemblyAI ==
    /\ apiPc = "assemblyai"
    /\ apiAttempts' = Append(apiAttempts, "assemblyai")
    /\ apiTranscription' = tryAssemblyAI(apiServices.assemblyai)
    /\ apiPc' = "respond"
    /\ UNCHANGED <<apiRequest, apiServices, apiResponse>>
    /\ OnlyApi

\* if (!transcription) -> 500; else 200 with the transcription
ApiRespond ==
    /\ apiPc = "respond"
    /\ apiResponse' =
         IF NoTranscription(apiTranscription)
         THEN Some(Response(500, "Both transcription services failed"))
         ELSE Some(Response(200, apiTranscription.value))
    /\ apiPc' = "done"
    /\ UNCHANGED <<apiRequest, apiServices, apiTranscription, apiAttempts>>
    /\ OnlyApi

TranscribeNext == ApiReceive \/ ApiTryOpenAI \/ ApiTryAssemblyAI \/ ApiRespond

InitTranscribe ==
    /\ apiRequest \in ApiRequests
    /\ apiServices \in [openai : OpenAIOutcomes, assemblyai : AssemblyAIOutcomes]
    /\ apiPc = "idle"
    /\ apiTranscription = Null
    /\ apiAttempts = <<>>
    /\ apiResponse = Null
    /\ OpsIdle /\ ValIdle /\ FnIdle /\ BatchIdle /\ PlayerIdle
    /\ HistoryIdle /\ EnvInit /\ CodecIdle /\ StoreIdle /\ PageIdle

SpecTranscribe == InitTranscribe /\ [][TranscribeNext]_vars

\* the service was called and answered with a transcript
Produced(outcome) == outcome \in {"empty", "srt"}

\* the services that were given the audio and produced a transcript
Producers ==
    {s \in {"openai", "assemblyai"} :
        /\ \E i \in 1..Len(apiAttempts) : apiAttempts[i] = s
        /\ Produced(apiServices[s])}

(* C27 - the route attempts OpenAI first and AssemblyAI only if OpenAI was  *)
(* unconfigured or failed; it answers 400 when the request holds no audio  *)
(* file, 200 with the SRT text iff one of the two services produced a      *)
(* transcript, and 500 when both failed.                                   *)
C27_FallbackProtocol ==
    /\ \A i \in 1..Len(apiAttempts) :
          apiAttempts[i] = "assemblyai" =>
             /\ i = 2 /\ apiAttempts[1] = "openai"
             /\ apiServices.openai \in {"unconfigured", "throws"}
    /\ apiPc = "done" =>
          IF apiRequest # "audio"
          THEN apiResponse.value.status = 400 /\ apiAttempts = <<>>
          ELSE /\ apiAttempts # <<>> /\ apiAttempts[1] = "openai"
               /\ apiResponse.value.status = 200 <=> Producers # {}
               /\ apiResponse.value.status = 200 =>
                     \E s \in Producers :
                        apiResponse.value.body = TranscriptOf(apiServices[s])
               /\ Producers = {} => apiResponse.value.status = 500

-----------------------------------------------------------------------------
(***************************************************************************)
(* SpecBatch: undo() and redo() called one or more times before the        *)
(* component renders again.  past, present and future are the values of    *)
(* the last render, which every handler of that render closes over; a      *)
(* setter call joins the queue `pending`, and the next render works the    *)
(* queue off in order: a value replaces the state, an updater function is  *)
(* applied to the state the queue has produced so far.                     *)
(***************************************************************************)

\* setPast(newPast) / setFuture(newFuture) / setPresent(newPresent)
SetValue(target, value) == [target |-> target, fn |-> "value", arg |-> value]
\* setFuture((currentFuture) => [present, ...currentFuture])
SetPrepend(target, entry) == [target |-> target, fn |-> "prepend", arg |-> <<entry>>]
\* setPast((currentPast) => [...currentPast, present])
SetAppend(target, entry) == [target |-> target, fn |-> "append", arg |-> <<entry>>]

ApplyUpdate(update, current) ==
    CASE update.fn = "value"   -> update.arg
      [] update.fn = "prepend" -> update.arg \o current
      [] update.fn = "append"  -> current \o update.arg

\* the state of one useState after the queued updates for it
RECURSIVE Rendered(_, _, _)
Rendered(queue, target, current) ==
    IF queue = <<>> THEN current
    ELSE Rendered(Tail(queue), target,
                  IF Head(queue).target = target
                     THEN ApplyUpdate(Head(queue), current)
                     ELSE current)

\* undo(), its setter calls queued
undoQueued ==
    /\ IF Len(past) = 0
          THEN UNCHANGED <<pending, isUndoRedoRef>>
          ELSE /\ isUndoRedoRef' = TRUE
               /\ pending' = pending \o
                    << SetValue("past", PopRest(past)),
                       SetPrepend("future", present),
                       SetValue("present", <<Pop(past)>>) >>
    /\ UNCHANGED <<past, present, future>>
    /\ Record("undo", present)

\* redo(), its setter calls queued
redoQueued ==
    /\ IF Len(future) = 0
          THEN UNCHANGED <<pending, isUndoRedoRef>>
          ELSE /\ isUndoRedoRef' = TRUE
               /\ pending' = pending \o
                    << SetValue("future", ShiftRest(future)),
                       SetAppend("past", present),
                       SetValue("present", <<Shift(future)>>) >>
    /\ UNCHANGED <<past, present, future>>
    /\ Record("redo", present)

OnlyBatch ==
    UNCHANGED <<envVars, codecVars, storeVars, pageVars, opsVars, valVars,
                fnVars, playerVars, apiVars>>

\* how many handler calls may precede one render
MaxBatch == 2

BatchUndo ==
    /\ Len(log) < MaxSteps
    /\ Len(pending) < 3 * MaxBatch
    /\ undoQueued
    /\ OnlyBatch

BatchRedo ==
    /\ Len(log) < MaxSteps
    /\ Len(pending) < 3 * MaxBatch
    /\ redoQueued
    /\ OnlyBatch

\* the component renders: every useState takes the outcome of its queue
Render ==
    /\ pending # <<>>
    /\ past' = Rendered(pending, "past", past)
    /\ present' = Rendered(pending, "present", <<present>>)[1]
    /\ future' = Rendered(pending, "future", future)
    /\ pending' = <<>>
    /\ UNCHANGED <<isUndoRedoRef, log, pre, born>>
    /\ OnlyBatch

BatchNext == BatchUndo \/ BatchRedo \/ Render

\* how many entries past and future hold at the start
MaxStack == 2

\* the hook after i + j commits of CycleValue(1), CycleValue(2), ... and j undos
InitBatch ==
    /\ \E i \in 0..MaxStack, j \in 0..MaxStack :
          /\ past = [k \in 1..i |-> CycleValue(k - 1)]
          /\ present = CycleValue(i)
          /\ future = [k \in 1..j |-> CycleValue(i + k)]
    /\ isUndoRedoRef \in BOOLEAN
    /\ born = "fresh"
    /\ log = <<>>
    /\ pre = Snapshot
    /\ pending = <<>>
    /\ OpsIdle /\ ValIdle /\ FnIdle /\ PlayerIdle /\ ApiIdle
    /\ EnvInit /\ CodecIdle /\ StoreIdle /\ PageIdle

SpecBatch == InitBatch /\ [][BatchNext]_vars

\* past ++ [present] ++ future
Timeline(h) == h.past \o <<h.present>> \o h.future

(* C28 - undo() and redo() only move entries between the stacks: once the   *)
(* component has rendered, past ++ [present] ++ future is what it was      *)
(* before the calls, also when two of them were issued before the render.  *)
C28_TimelineConserved ==
    (pending = <<>> /\ log # <<>>) => Timeline(Snapshot) = Timeline(pre)

-----------------------------------------------------------------------------
(***************************************************************************)
(* SpecChain: validateAllCaptions on a collection of up to MaxChain        *)
(* segments, and the locator on the same collection at every sample time.  *)
(***************************************************************************)

MaxChain == 3

ChainContents ==
    {[start |-> 0, end |-> 1000, text |-> Str_a],
     [start |-> 1000, end |-> 2000, text |-> Str_a],
     [start |-> 2000, end |-> 3000, text |-> Str_a],
     [start |-> 500, end |-> 1500, text |-> Str_a],
     [start |-> 0, end |-> 3000, text |-> Str_a],
     [start |-> 1000, end |-> 1000, text |-> Str_a],
     [start |-> 2000, end |-> 1000, text |-> Str_a]}

ChainCollections ==
    UNION {{[i \in 1..n |-> OpsSegment(f[i], i)] : f \in [1..n -> ChainContents]}
              : n \in 0..MaxChain}

ChainTimes == {0, 500, 999, 1000, 1499, 1500, 2000, 2999, 3000}

InitChain == fnInput \in ChainCollections /\ FnRest

CallValidateAndLocate ==
    /\ fnCall = "none"
    /\ fnCall' = "validateAllCaptions"
    /\ fnResult' =
          [validation |-> validateAllCaptions(fnInput),
           located |-> [t \in ChainTimes |-> findActiveCaptionIndex(fnInput, t)]]
    /\ UNCHANGED fnInput
    /\ OnlyFn

SpecChain == InitChain /\ [][CallValidateAndLocate]_vars

SortedByStart(captions) ==
    \A i, j \in 1..Len(captions) : i < j => captions[i].start <= captions[j].start

-----------------------------------------------------------------------------
(***************************************************************************)
(* SpecPlayer: the VideoPlayer component.  playerCaptions is its captions  *)
(* prop, videoCurrentTime the position of the <video> element in           *)
(* milliseconds, currentTime and activeCaptionIndex its state.  The parent *)
(* changes the prop when the editor deletes, retimes or adds a segment or  *)
(* when the text is parsed again.                                          *)
(***************************************************************************)

PlayerTimes == {0, 1000, 1999, 2000, 3000}

OnlyPlayer ==
    UNCHANGED <<historyVars, codecVars, storeVars, pageVars, opsVars, valVars,
                fnVars, pending, apiVars>>

\* playback advances or seekTo(timeMs) moves the element
VpSeek ==
    /\ playerEvents < MaxPageEvents
    /\ \E t \in PlayerTimes : t # videoCurrentTime /\ videoCurrentTime' = t
    /\ playerEvents' = playerEvents + 1
    /\ playerLast' = "seek"
    /\ UNCHANGED <<playerCaptions, currentTime, activeCaptionIndex, envVars>>
    /\ OnlyPlayer

\* the 'timeupdate' listener; the effect re-attaches it with the current prop
handleTimeUpdate ==
    /\ playerEvents < MaxPageEvents
    /\ LET timeMs == videoCurrentTime IN
          /\ currentTime' = timeMs
          /\ activeCaptionIndex' = findActiveCaptionIndex(playerCaptions, timeMs)
    /\ playerEvents' = playerEvents + 1
    /\ playerLast' = "timeupdate"
    /\ UNCHANGED <<playerCaptions, videoCurrentTime, envVars>>
    /\ OnlyPlayer

\* the parent renders with a new collection; the player's state stays
SetCaptionsProp(captions, event) ==
    /\ playerEvents < MaxPageEvents
    /\ playerCaptions' = captions
    /\ playerEvents' = playerEvents + 1
    /\ playerLast' = event
    /\ UNCHANGED <<videoCurrentTime, currentTime, activeCaptionIndex>>
    /\ OnlyPlayer

\* CaptionEditor.handleDelete
VpDelete ==
    /\ \E id \in Ids(playerCaptions) :
          SetCaptionsProp(deleteCaption(playerCaptions, id), "delete")
    /\ UNCHANGED envVars

\* CaptionEditor.handleUpdate, from CaptionCard.applyTimeChanges
VpRetime ==
    /\ \E id \in Ids(playerCaptions), updates \in StorePatches :
          /\ updates.fields = {"start", "end"}
          /\ SetCaptionsProp(updateCaption(playerCaptions, id, updates), "retime")
    /\ UNCHANGED envVars

\* CaptionEditor.handleAddCaption
VpInsert ==
    /\ Len(playerCaptions) < MaxCaptions
    /\ randomDraws < MaxRandom
    /\ LET nextStart == IF playerCaptions = <<>> THEN 0
                        ELSE playerCaptions[Len(playerCaptions)].end
       IN  \E t \in 0..MaxClock :
              /\ ReadClock(t)
              /\ SetCaptionsProp(
                     addCaption(playerCaptions, Len(playerCaptions),
                                [start |-> nextStart, end |-> nextStart + 3000,
                                 text |-> <<>>],
                                t, randomDraws + 1), "insert")
    /\ randomDraws' = randomDraws + 1

\* the page's parse effect replaces the collection
VpReparse ==
    /\ \E captions \in OpsCollections :
          /\ captions # playerCaptions
          /\ SetCaptionsProp(captions, "reparse")
    /\ UNCHANGED envVars

PlayerNext == VpSeek \/ handleTimeUpdate \/ VpDelete \/ VpRetime \/ VpInsert \/ VpReparse

InitPlayer ==
    /\ playerCaptions \in OpsCollections
    /\ videoCurrentTime = 0
    /\ currentTime = 0
    /\ activeCaptionIndex = Null
    /\ playerLast = "mount"
    /\ playerEvents = 0
    /\ OpsIdle /\ ValIdle /\ FnIdle /\ BatchIdle /\ ApiIdle
    /\ HistoryIdle /\ EnvInit /\ CodecIdle /\ StoreIdle /\ PageIdle

SpecPlayer == InitPlayer /\ [][PlayerNext]_vars

(* C30 - whenever activeCaptionIndex is not null it is a valid index into   *)
(* the current captions and the segment at that index contains             *)
(* currentTime, also when the collection was edited since the last         *)
(* timeupdate event.                                                       *)
C30_ActiveIndexValid ==
    ~activeCaptionIndex.isNull =>
        /\ activeCaptionIndex.value + 1 \in 1..Len(playerCaptions)
        /\ playerCaptions[activeCaptionIndex.value + 1].start <= currentTime
        /\ currentTime < playerCaptions[activeCaptionIndex.value + 1].end

====
